---- MODULE Spec2Model ----
(***************************************************************************)
(* Inventory store with flat-file persistence (PARCIAL 02, semana 10):     *)
(* Producto (Semana 09/producto.py) and Inventario (semana 10/             *)
(* inventario.py), called by any caller in any order.                      *)
(*                                                                         *)
(* Texts are sequences of one-character strings, so that formatting a      *)
(* record into a line and parsing a line back are computed, not assumed.   *)
(* A float is a record [clase, v]: clase "fin" with the whole value v, or  *)
(* clase "nan" (float('nan'), which float("nan") and a caller can make).   *)
(***************************************************************************)
EXTENDS Integers, Sequences, FiniteSets, TLC

\* ------------------------------------------------------------------ bounds

\* Number of lines of the file found at the first start.
MaxLineas == 2
\* I/O faults (failed read, failed write) the environment injects in a run.
MaxFallos == 1

\* --------------------------------------------------------------- constants

SEPARADOR == "|"

\* ------------------------------------------------------------------ floats

Fin(n) == [clase |-> "fin", v |-> n]
NaN == [clase |-> "nan", v |-> 0]

\* x < 0 for a float or an int held as a float record: false for NaN.
MenorQueCero(x) == x.clase = "fin" /\ x.v < 0

\* x >= 0: false for NaN.
NoNegativo(x) == x.clase = "fin" /\ x.v >= 0

\* -------------------------------------------------------------------- text

Digitos == <<"0", "1", "2", "3", "4", "5", "6", "7", "8", "9">>

EsDigito(c) == \E i \in 1..10 : Digitos[i] = c

ValorDigito(c) == (CHOOSE i \in 1..10 : Digitos[i] = c) - 1

EsEspacio(c) == c = " "

Minusculas == <<"a", "b">>
Mayusculas == <<"A", "B">>

EsMinuscula(c) == \E i \in 1..Len(Minusculas) : Minusculas[i] = c
EsMayuscula(c) == \E i \in 1..Len(Mayusculas) : Mayusculas[i] = c
EsLetra(c) == EsMinuscula(c) \/ EsMayuscula(c)

upper(c) == IF EsMinuscula(c)
            THEN Mayusculas[CHOOSE i \in 1..Len(Minusculas) : Minusculas[i] = c]
            ELSE c

lower(c) == IF EsMayuscula(c)
            THEN Minusculas[CHOOSE i \in 1..Len(Mayusculas) : Mayusculas[i] = c]
            ELSE c

RECURSIVE lstrip(_)
lstrip(s) == IF s # <<>> /\ EsEspacio(Head(s)) THEN lstrip(Tail(s)) ELSE s

RECURSIVE rstrip(_)
rstrip(s) == IF s # <<>> /\ EsEspacio(s[Len(s)])
             THEN rstrip(SubSeq(s, 1, Len(s) - 1))
             ELSE s

\* str.strip()
strip(s) == rstrip(lstrip(s))

\* str.title(): a letter after a non-letter is upper-cased, a letter after a
\* letter is lower-cased, other characters are kept.
title(s) == [i \in 1..Len(s) |->
               IF i = 1 \/ ~EsLetra(s[i - 1]) THEN upper(s[i]) ELSE lower(s[i])]

\* str.lower()
lowerStr(s) == [i \in 1..Len(s) |-> lower(s[i])]

\* str.split(sep): always at least one field.
RECURSIVE split(_, _)
split(s, sep) ==
    IF \A i \in 1..Len(s) : s[i] # sep
    THEN <<s>>
    ELSE LET k == CHOOSE i \in 1..Len(s) :
                     s[i] = sep /\ \A j \in 1..(i - 1) : s[j] # sep
         IN  <<SubSeq(s, 1, k - 1)>> \o split(SubSeq(s, k + 1, Len(s)), sep)

\* str(n) for n >= 0.
RECURSIVE NatToStr(_)
NatToStr(n) == IF n < 10 THEN <<Digitos[n + 1]>>
               ELSE NatToStr(n \div 10) \o <<Digitos[(n % 10) + 1]>>

\* f"{n}" for an int.
IntToStr(n) == IF n < 0 THEN <<"-">> \o NatToStr(0 - n) ELSE NatToStr(n)

\* f"{x}" for a float: repr, "nan" or the whole value followed by ".0".
FloatToStr(x) == IF x.clase = "nan" THEN <<"n", "a", "n">>
                 ELSE IntToStr(x.v) \o <<".", "0">>

SoloDigitos(s) == s # <<>> /\ \A i \in 1..Len(s) : EsDigito(s[i])

RECURSIVE DigitosAValor(_)
DigitosAValor(s) == IF s = <<>> THEN 0
                    ELSE 10 * DigitosAValor(SubSeq(s, 1, Len(s) - 1))
                         + ValorDigito(s[Len(s)])

\* ord(c) of the characters a name can hold.
ord(c) == CASE c = " " -> 32
            [] c = "A" -> 65
            [] c = "B" -> 66
            [] c = "a" -> 97
            [] c = "b" -> 98
            [] c = "|" -> 124

\* s <= t for two str: the first differing character decides, a prefix is
\* smaller.
RECURSIVE MenorOIgual(_, _)
MenorOIgual(s, t) ==
    IF s = <<>> THEN TRUE
    ELSE IF t = <<>> THEN FALSE
    ELSE IF Head(s) # Head(t) THEN ord(Head(s)) < ord(Head(t))
    ELSE MenorOIgual(Tail(s), Tail(t))

\* t in s for two str.
Contiene(s, t) ==
    \E i \in 0..(Len(s) - Len(t)) : SubSeq(s, i + 1, i + Len(t)) = t

\* The text without its sign, and the sign.
SinSigno(s) == IF s # <<>> /\ (s[1] = "-" \/ s[1] = "+") THEN Tail(s) ELSE s
Signo(s) == IF s # <<>> /\ s[1] = "-" THEN 0 - 1 ELSE 1

\* int(s): surrounding blanks and a sign are accepted; [ok |-> FALSE] is
\* ValueError.
StrToInt(s) ==
    LET t == strip(s)
        d == SinSigno(t)
    IN  IF SoloDigitos(d) THEN [ok |-> TRUE, v |-> Signo(t) * DigitosAValor(d)]
        ELSE [ok |-> FALSE, v |-> 0]

\* float(s) on the texts of the model: "nan" in any case, or digits with an
\* optional fraction of zeros (the modelled floats are whole); [ok |-> FALSE]
\* is ValueError.
StrToFloat(s) ==
    LET t == strip(s)
        d == SinSigno(t)
        partes == split(d, ".")
    IN  IF lowerStr(d) = <<"n", "a", "n">> THEN [ok |-> TRUE, v |-> NaN]
        ELSE IF Len(partes) = 1 /\ SoloDigitos(d)
        THEN [ok |-> TRUE, v |-> Fin(Signo(t) * DigitosAValor(d))]
        ELSE IF Len(partes) = 2
                /\ (SoloDigitos(partes[1]) \/ (partes[1] = <<>> /\ partes[2] # <<>>))
                /\ \A i \in 1..Len(partes[2]) : partes[2][i] = "0"
        THEN [ok |-> TRUE, v |-> Fin(Signo(t) * DigitosAValor(partes[1]))]
        ELSE [ok |-> FALSE, v |-> NaN]

\* ---------------------------------------------------------------- Producto

\* Producto.__init__: [ok |-> FALSE] is ValueError. id_producto and cantidad
\* are ints, precio a float, nombre a text.
Producto_init(id_producto, nombre, cantidad, precio) ==
    IF id_producto <= 0 \/ cantidad < 0 \/ MenorQueCero(precio)
    THEN [ok |-> FALSE,
          p |-> [id |-> 0, nombre |-> <<>>, cantidad |-> 0, precio |-> Fin(0)]]
    ELSE [ok |-> TRUE,
          p |-> [id |-> id_producto, nombre |-> title(strip(nombre)),
                 cantidad |-> cantidad, precio |-> precio]]

\* Mutant of cantidad_setter: the value is assigned before it is validated.
cantidad_setter_asigna_antes(p, nueva_cantidad) ==
    [ok |-> nueva_cantidad >= 0, p |-> [p EXCEPT !.cantidad = nueva_cantidad]]

\* Producto.cantidad setter: [ok |-> FALSE] is ValueError, p unchanged.
cantidad_setter(p, nueva_cantidad) ==
    IF nueva_cantidad < 0 THEN [ok |-> FALSE, p |-> p]
    ELSE [ok |-> TRUE, p |-> [p EXCEPT !.cantidad = nueva_cantidad]]

\* Mutant of precio_setter: the value is assigned to the quantity field.
precio_setter_en_cantidad(p, nuevo_precio) ==
    IF MenorQueCero(nuevo_precio) THEN [ok |-> FALSE, p |-> p]
    ELSE [ok |-> TRUE, p |-> [p EXCEPT !.cantidad = nuevo_precio.v]]

\* Producto.precio setter: [ok |-> FALSE] is ValueError, p unchanged.
precio_setter(p, nuevo_precio) ==
    IF MenorQueCero(nuevo_precio) THEN [ok |-> FALSE, p |-> p]
    ELSE [ok |-> TRUE, p |-> [p EXCEPT !.precio = nuevo_precio]]

\* -------------------------------------------------------------- Inventario

\* A store st is [objetos, productos, indice_por_id, archivo]:
\*   objetos        the Producto objects alive, by reference;
\*   productos      self._productos, a list of references;
\*   indice_por_id  self._indice_por_id, id -> reference;
\*   archivo        ARCHIVO_INVENTARIO: [existe, lineas], each line a text
\*                  without its line break.
SinObjetos == [r \in {} |-> 0]
IndiceVacio == [k \in {} |-> 0]
ArchivoAusente == [existe |-> FALSE, lineas |-> <<>>]

\* A byte of the file that is not valid UTF-8, at its place in a line.
ByteInvalido == "0xFF"

\* Whether open(..., encoding="utf-8") and readlines() decode the file.
Decodificable(lineas) ==
    \A i \in 1..Len(lineas) : \A j \in 1..Len(lineas[i]) : lineas[i][j] # ByteInvalido

\* The reference of a newly constructed object with the given id: one not in
\* use. Addresses carry no meaning in the code, so the choice among the free
\* ones is a naming only: the id itself when free, else the first free above.
NuevaRef(st, id) ==
    IF id \notin DOMAIN st.objetos THEN id
    ELSE CHOOSE r \in (id + 1)..(id + 1 + Cardinality(DOMAIN st.objetos)) :
             /\ r \notin DOMAIN st.objetos
             /\ \A q \in (id + 1)..(r - 1) : q \in DOMAIN st.objetos

\* Mutant of linea_de: the separator is taken out of the name before it is
\* written.
linea_de_sin_separador_en_nombre(producto) ==
    IntToStr(producto.id) \o <<SEPARADOR>>
    \o SelectSeq(producto.nombre, LAMBDA c : c # SEPARADOR) \o <<SEPARADOR>>
    \o IntToStr(producto.cantidad) \o <<SEPARADOR>> \o FloatToStr(producto.precio)

\* The line _guardar_en_archivo writes for one product.
linea_de(producto) ==
    IntToStr(producto.id) \o <<SEPARADOR>> \o producto.nombre \o <<SEPARADOR>>
    \o IntToStr(producto.cantidad) \o <<SEPARADOR>> \o FloatToStr(producto.precio)

\* The lines of the whole snapshot, in the order of self._productos.
Instantanea(st) ==
    [i \in 1..Len(st.productos) |-> linea_de(st.objetos[st.productos[i]])]

\* The outcomes of opening and writing the file: "ok"; "PermissionError"
\* (open fails, the file is untouched); "OSError" after open truncated the
\* file and k lines were written.
ResultadosEscritura == {"ok", "PermissionError", "OSError"}

\* The lines on disk when the write of snapshot fails after k lines: fewer
\* than the whole snapshot.
Escritas(snapshot, k) ==
    IF snapshot = <<>> THEN <<>>
    ELSE SubSeq(snapshot, 1, IF k < Len(snapshot) THEN k ELSE Len(snapshot) - 1)

\* Mutant of guardar_en_archivo: the file is opened in append mode.
guardar_en_archivo_anexando(st, e, k) ==
    IF e = "ok"
    THEN [st EXCEPT !.archivo = [existe |-> TRUE,
                                 lineas |-> st.archivo.lineas \o Instantanea(st)]]
    ELSE st

\* Inventario._guardar_en_archivo under outcome e (k: lines written before an
\* OSError).
guardar_en_archivo(st, e, k) ==
    IF e = "ok"
    THEN [st EXCEPT !.archivo = [existe |-> TRUE, lineas |-> Instantanea(st)]]
    ELSE IF e = "OSError"
    THEN [st EXCEPT !.archivo =
             [existe |-> TRUE, lineas |-> Escritas(Instantanea(st), k)]]
    ELSE st

\* Mutant of crear_archivo_vacio: the file is not created (the load only
\* prints the note of lines 93-94).
crear_archivo_vacio_sin_crear(st, e) == st

\* Inventario._crear_archivo_vacio under outcome e.
crear_archivo_vacio(st, e) ==
    IF e = "ok" THEN [st EXCEPT !.archivo = [existe |-> TRUE, lineas |-> <<>>]]
    ELSE st

\* Mutant of cargar_linea: no check of the id against the index.
cargar_linea_sin_control_de_id(st, texto) ==
    LET partes == split(strip(texto), SEPARADOR)
        r == NuevaRef(st, StrToInt(partes[1]).v)
    IN  IF Len(partes) # 4 \/ ~StrToInt(partes[1]).ok \/ ~StrToInt(partes[3]).ok
           \/ ~StrToFloat(partes[4]).ok
        THEN st
        ELSE LET nuevo == Producto_init(StrToInt(partes[1]).v, partes[2],
                                        StrToInt(partes[3]).v, StrToFloat(partes[4]).v)
             IN  IF ~nuevo.ok THEN st
                 ELSE [st EXCEPT
                         !.objetos = (r :> nuevo.p) @@ st.objetos,
                         !.productos = Append(st.productos, r),
                         !.indice_por_id = (nuevo.p.id :> r) @@ st.indice_por_id]

\* One line of the load loop (lines 111-151): the store after the line.
cargar_linea(st, texto) ==
    LET linea == strip(texto)
        partes == split(linea, SEPARADOR)
    IN  IF linea = <<>> THEN st
        ELSE IF Len(partes) # 4 THEN st
        ELSE LET id_prod == StrToInt(partes[1])
                 cantidad == StrToInt(partes[3])
                 precio == StrToFloat(partes[4])
             IN  IF ~id_prod.ok \/ ~cantidad.ok \/ ~precio.ok THEN st
                 ELSE LET nuevo == Producto_init(id_prod.v, partes[2],
                                                 cantidad.v, precio.v)
                          r == NuevaRef(st, id_prod.v)
                      IN  IF ~nuevo.ok THEN st
                          ELSE IF nuevo.p.id \in DOMAIN st.indice_por_id THEN st
                          ELSE [st EXCEPT
                                  !.objetos = (r :> nuevo.p) @@ st.objetos,
                                  !.productos = Append(st.productos, r),
                                  !.indice_por_id =
                                      (nuevo.p.id :> r) @@ st.indice_por_id]

\* The load loop over the lines read.
RECURSIVE cargar_lineas(_, _)
cargar_lineas(st, lineas) ==
    IF lineas = <<>> THEN st
    ELSE cargar_lineas(cargar_linea(st, Head(lineas)), Tail(lineas))

\* Mutant of cargar_desde_archivo: the store loaded is saved at once, so the
\* load rewrites the file it read.
cargar_desde_archivo_y_guarda(st, lectura, e) ==
    IF ~st.archivo.existe THEN crear_archivo_vacio(st, e)
    ELSE IF lectura # "ok" THEN st
    ELSE IF ~Decodificable(st.archivo.lineas) THEN st
    ELSE guardar_en_archivo(cargar_lineas(st, st.archivo.lineas), "ok", 0)

\* Mutant of cargar_desde_archivo: a file that cannot be read is created
\* anew, empty, as a missing one is.
cargar_desde_archivo_recrea_si_falla(st, lectura, e) ==
    IF ~st.archivo.existe THEN crear_archivo_vacio(st, e)
    ELSE IF lectura # "ok" THEN crear_archivo_vacio(st, "ok")
    ELSE IF ~Decodificable(st.archivo.lineas) THEN st
    ELSE cargar_lineas(st, st.archivo.lineas)

\* Inventario._cargar_desde_archivo: lectura is the outcome of opening and
\* reading an existing file, e that of creating a missing one.
cargar_desde_archivo(st, lectura, e) ==
    IF ~st.archivo.existe THEN crear_archivo_vacio(st, e)
    ELSE IF lectura # "ok" THEN st
    ELSE IF ~Decodificable(st.archivo.lineas) THEN st
    ELSE cargar_lineas(st, st.archivo.lineas)

\* The exception that leaves _cargar_desde_archivo, and so Inventario(): the
\* read is guarded against FileNotFoundError, PermissionError and OSError;
\* UnicodeDecodeError, a ValueError, is none of them.
cargar_desde_archivo_excepcion(archivo, lectura) ==
    IF archivo.existe /\ lectura = "ok" /\ ~Decodificable(archivo.lineas)
    THEN "UnicodeDecodeError"
    ELSE "ninguna"

\* Inventario.__init__ on the file found.
Inventario_init(archivo, lectura, e) ==
    cargar_desde_archivo([objetos |-> SinObjetos, productos |-> <<>>,
                          indice_por_id |-> IndiceVacio, archivo |-> archivo],
                         lectura, e)

\* list.remove(x): the list without its first element equal to x.
remove(lista, x) ==
    LET k == CHOOSE i \in 1..Len(lista) :
                 lista[i] = x /\ \A j \in 1..(i - 1) : lista[j] # x
    IN  SubSeq(lista, 1, k - 1) \o SubSeq(lista, k + 1, Len(lista))

\* dict without key k.
SinClave(d, k) == [j \in DOMAIN d \ {k} |-> d[j]]

\* Mutant of agregar_producto: no check of the id; the index entry is
\* overwritten.
agregar_producto_sin_control_de_id(st, producto, e, k) ==
    LET r == NuevaRef(st, producto.id)
    IN  [st |-> guardar_en_archivo(
                    [st EXCEPT !.objetos = (r :> producto) @@ st.objetos,
                               !.productos = Append(st.productos, r),
                               !.indice_por_id = (producto.id :> r) @@ st.indice_por_id],
                    e, k),
         ret |-> "True", escritura |-> e]

\* Mutant of agregar_producto: the product is inserted first (insert(0, ...)).
agregar_producto_al_inicio(st, producto, e, k) ==
    IF producto.id \in DOMAIN st.indice_por_id
    THEN [st |-> st, ret |-> "False", escritura |-> "ninguna"]
    ELSE LET r == NuevaRef(st, producto.id)
         IN  [st |-> guardar_en_archivo(
                         [st EXCEPT !.objetos = (r :> producto) @@ st.objetos,
                                    !.productos = <<r>> \o st.productos,
                                    !.indice_por_id =
                                        (producto.id :> r) @@ st.indice_por_id],
                         e, k),
              ret |-> "True", escritura |-> e]

\* Mutant of agregar_producto: the product is taken out again when the save
\* fails.
agregar_producto_revierte_si_falla(st, producto, e, k) ==
    IF producto.id \in DOMAIN st.indice_por_id
    THEN [st |-> st, ret |-> "False", escritura |-> "ninguna"]
    ELSE LET r == NuevaRef(st, producto.id)
             en_memoria == [st EXCEPT
                              !.objetos = (r :> producto) @@ st.objetos,
                              !.productos = Append(st.productos, r),
                              !.indice_por_id =
                                  (producto.id :> r) @@ st.indice_por_id]
             guardado == guardar_en_archivo(en_memoria, e, k)
         IN  [st |-> IF e = "ok" THEN guardado
                     ELSE [st EXCEPT !.archivo = guardado.archivo],
              ret |-> "True", escritura |-> e]

\* Inventario.agregar_producto(producto): [st, ret, escritura]; escritura is
\* "ninguna" when the file is not opened.
agregar_producto(st, producto, e, k) ==
    IF producto.id \in DOMAIN st.indice_por_id
    THEN [st |-> st, ret |-> "False", escritura |-> "ninguna"]
    ELSE LET r == NuevaRef(st, producto.id)
             en_memoria == [st EXCEPT
                              !.objetos = (r :> producto) @@ st.objetos,
                              !.productos = Append(st.productos, r),
                              !.indice_por_id =
                                  (producto.id :> r) @@ st.indice_por_id]
         IN  [st |-> guardar_en_archivo(en_memoria, e, k),
              ret |-> "True", escritura |-> e]

\* Mutant of eliminar_producto: an absent id is not rejected
\* (pop(id, None)); the file is rewritten and True returned.
eliminar_producto_sin_comprobar(st, id_producto, e, k) ==
    IF id_producto \notin DOMAIN st.indice_por_id
    THEN [st |-> guardar_en_archivo(st, e, k), ret |-> "True", escritura |-> e]
    ELSE LET producto == st.indice_por_id[id_producto]
         IN  [st |-> guardar_en_archivo(
                         [st EXCEPT
                            !.indice_por_id = SinClave(st.indice_por_id, id_producto),
                            !.productos = SubSeq(st.productos, 1,
                                (CHOOSE i \in 1..Len(st.productos) :
                                     st.productos[i] = producto) - 1)
                                \o SubSeq(st.productos,
                                    (CHOOSE i \in 1..Len(st.productos) :
                                         st.productos[i] = producto) + 1,
                                    Len(st.productos)),
                            !.objetos = SinClave(st.objetos, producto)],
                         e, k),
              ret |-> "True", escritura |-> e]

\* Mutant of eliminar_producto: the product is removed from the list and
\* left in the index.
eliminar_producto_solo_de_la_lista(st, id_producto, e, k) ==
    IF id_producto \notin DOMAIN st.indice_por_id
    THEN [st |-> st, ret |-> "False", escritura |-> "ninguna"]
    ELSE [st |-> guardar_en_archivo(
                     [st EXCEPT !.productos =
                         SelectSeq(st.productos,
                                   LAMBDA r : r # st.indice_por_id[id_producto])],
                     e, k),
          ret |-> "True", escritura |-> e]

\* Mutant of eliminar_producto: the product is popped from the index and left
\* in the list.
eliminar_producto_solo_del_indice(st, id_producto, e, k) ==
    IF id_producto \notin DOMAIN st.indice_por_id
    THEN [st |-> st, ret |-> "False", escritura |-> "ninguna"]
    ELSE [st |-> guardar_en_archivo(
                     [st EXCEPT !.indice_por_id = SinClave(st.indice_por_id, id_producto)],
                     e, k),
          ret |-> "True", escritura |-> e]

\* Mutant of eliminar_producto: the last product of the list is moved to the
\* place of the removed one (a removal that does not shift the list).
eliminar_producto_mueve_el_ultimo(st, id_producto, e, k) ==
    IF id_producto \notin DOMAIN st.indice_por_id
    THEN [st |-> st, ret |-> "False", escritura |-> "ninguna"]
    ELSE LET producto == st.indice_por_id[id_producto]
             n == Len(st.productos)
             lugar == CHOOSE i \in 1..n : st.productos[i] = producto
             en_memoria == [st EXCEPT
                              !.indice_por_id = SinClave(st.indice_por_id, id_producto),
                              !.productos =
                                  [i \in 1..(n - 1) |->
                                      IF i = lugar THEN st.productos[n]
                                      ELSE st.productos[i]],
                              !.objetos = SinClave(st.objetos, producto)]
         IN  [st |-> guardar_en_archivo(en_memoria, e, k),
              ret |-> "True", escritura |-> e]

\* Inventario.eliminar_producto(id_producto).
eliminar_producto(st, id_producto, e, k) ==
    IF id_producto \notin DOMAIN st.indice_por_id
    THEN [st |-> st, ret |-> "False", escritura |-> "ninguna"]
    ELSE LET producto == st.indice_por_id[id_producto]
             en_memoria == [st EXCEPT
                              !.indice_por_id = SinClave(st.indice_por_id, id_producto),
                              !.productos = remove(st.productos, producto),
                              !.objetos = SinClave(st.objetos, producto)]
         IN  [st |-> guardar_en_archivo(en_memoria, e, k),
              ret |-> "True", escritura |-> e]

\* Mutant of actualizar_cantidad: the file is rewritten before the
\* rejection is returned.
actualizar_cantidad_guarda_al_rechazar(st, id_producto, nueva_cantidad, e, k) ==
    IF id_producto \notin DOMAIN st.indice_por_id
    THEN [st |-> st, ret |-> "False", escritura |-> "ninguna"]
    ELSE LET producto == st.indice_por_id[id_producto]
             puesto == cantidad_setter(st.objetos[producto], nueva_cantidad)
             en_memoria == [st EXCEPT !.objetos[producto] = puesto.p]
         IN  [st |-> guardar_en_archivo(en_memoria, e, k),
              ret |-> IF puesto.ok THEN "True" ELSE "False", escritura |-> e]

\* Inventario.actualizar_cantidad(id_producto, nueva_cantidad): the setter
\* acts on the object itself, so what it leaves on a ValueError stays.
actualizar_cantidad(st, id_producto, nueva_cantidad, e, k) ==
    IF id_producto \notin DOMAIN st.indice_por_id
    THEN [st |-> st, ret |-> "False", escritura |-> "ninguna"]
    ELSE LET producto == st.indice_por_id[id_producto]
             puesto == cantidad_setter(st.objetos[producto], nueva_cantidad)
             en_memoria == [st EXCEPT !.objetos[producto] = puesto.p]
         IN  IF ~puesto.ok
             THEN [st |-> en_memoria, ret |-> "False", escritura |-> "ninguna"]
             ELSE [st |-> guardar_en_archivo(en_memoria, e, k),
                   ret |-> "True", escritura |-> e]

\* Mutant of actualizar_precio: the status is that of the save (False when
\* the write failed).
actualizar_precio_devuelve_el_guardado(st, id_producto, nuevo_precio, e, k) ==
    IF id_producto \notin DOMAIN st.indice_por_id
    THEN [st |-> st, ret |-> "False", escritura |-> "ninguna"]
    ELSE LET producto == st.indice_por_id[id_producto]
             puesto == precio_setter(st.objetos[producto], nuevo_precio)
             en_memoria == [st EXCEPT !.objetos[producto] = puesto.p]
         IN  IF ~puesto.ok
             THEN [st |-> en_memoria, ret |-> "False", escritura |-> "ninguna"]
             ELSE [st |-> guardar_en_archivo(en_memoria, e, k),
                   ret |-> IF e = "ok" THEN "True" ELSE "False", escritura |-> e]

\* Inventario.actualizar_precio(id_producto, nuevo_precio).
actualizar_precio(st, id_producto, nuevo_precio, e, k) ==
    IF id_producto \notin DOMAIN st.indice_por_id
    THEN [st |-> st, ret |-> "False", escritura |-> "ninguna"]
    ELSE LET producto == st.indice_por_id[id_producto]
             puesto == precio_setter(st.objetos[producto], nuevo_precio)
             en_memoria == [st EXCEPT !.objetos[producto] = puesto.p]
         IN  IF ~puesto.ok
             THEN [st |-> en_memoria, ret |-> "False", escritura |-> "ninguna"]
             ELSE [st |-> guardar_en_archivo(en_memoria, e, k),
                   ret |-> "True", escritura |-> e]

\* Mutant of buscar_por_nombre: the names are compared as they are
\* (p.nombre instead of p.nombre.lower()).
buscar_por_nombre_sin_minusculas(st, texto) ==
    LET t == strip(lowerStr(texto))
    IN  [st |-> st,
         ret |-> SelectSeq(st.productos,
                           LAMBDA r : Contiene(st.objetos[r].nombre, t))]

\* Inventario.buscar_por_nombre(texto): [st, ret], ret the list of the
\* products found.
buscar_por_nombre(st, texto) ==
    LET t == strip(lowerStr(texto))
    IN  [st |-> st,
         ret |-> SelectSeq(st.productos,
                           LAMBDA r : Contiene(lowerStr(st.objetos[r].nombre), t))]

\* sorted(lista, key=lambda p: p.nombre): stable, a new list.
RECURSIVE sorted(_, _)
sorted(objs, lista) ==
    IF lista = <<>> THEN <<>>
    ELSE LET resto == sorted(objs, SubSeq(lista, 1, Len(lista) - 1))
             x == lista[Len(lista)]
             antes == SelectSeq(resto, LAMBDA r :
                                  MenorOIgual(objs[r].nombre, objs[x].nombre))
             despues == SelectSeq(resto, LAMBDA r :
                                    ~MenorOIgual(objs[r].nombre, objs[x].nombre))
         IN  antes \o <<x>> \o despues

\* Mutant of mostrar_todos: the list itself is sorted
\* (self._productos.sort(key=...)).
mostrar_todos_ordena_la_lista(st) ==
    [st |-> [st EXCEPT !.productos = sorted(st.objetos, st.productos)],
     salida |-> sorted(st.objetos, st.productos)]

\* Inventario.mostrar_todos(): [st, salida], salida the products printed, in
\* the order printed.
mostrar_todos(st) ==
    [st |-> st, salida |-> sorted(st.objetos, st.productos)]

\* Inventario.contar_productos()
contar_productos(st) == Len(st.productos)

\* ------------------------------------------- the in-memory store (Semana 09)

\* A store of Semana 09 is [objetos, productos, indice_por_id]: it has no file.

\* Semana 09: Inventario.__init__
Semana09_Inventario_init ==
    [objetos |-> SinObjetos, productos |-> <<>>, indice_por_id |-> IndiceVacio]

\* Semana 09: Inventario.agregar_producto(producto): [st, ret].
Semana09_agregar_producto(st, producto) ==
    IF producto.id \in DOMAIN st.indice_por_id
    THEN [st |-> st, ret |-> "False"]
    ELSE LET r == NuevaRef(st, producto.id)
         IN  [st |-> [st EXCEPT
                        !.objetos = (r :> producto) @@ st.objetos,
                        !.productos = Append(st.productos, r),
                        !.indice_por_id = (producto.id :> r) @@ st.indice_por_id],
              ret |-> "True"]

\* Semana 09: Inventario.eliminar_producto(id_producto).
Semana09_eliminar_producto(st, id_producto) ==
    IF id_producto \notin DOMAIN st.indice_por_id
    THEN [st |-> st, ret |-> "False"]
    ELSE LET producto == st.indice_por_id[id_producto]
         IN  [st |-> [st EXCEPT
                        !.indice_por_id = SinClave(st.indice_por_id, id_producto),
                        !.productos = remove(st.productos, producto),
                        !.objetos = SinClave(st.objetos, producto)],
              ret |-> "True"]

\* Semana 09: Inventario.actualizar_cantidad(id_producto, nueva_cantidad).
Semana09_actualizar_cantidad(st, id_producto, nueva_cantidad) ==
    IF id_producto \notin DOMAIN st.indice_por_id
    THEN [st |-> st, ret |-> "False"]
    ELSE LET producto == st.indice_por_id[id_producto]
             puesto == cantidad_setter(st.objetos[producto], nueva_cantidad)
         IN  [st |-> [st EXCEPT !.objetos[producto] = puesto.p],
              ret |-> IF puesto.ok THEN "True" ELSE "False"]

\* Semana 09: Inventario.actualizar_precio(id_producto, nuevo_precio).
Semana09_actualizar_precio(st, id_producto, nuevo_precio) ==
    IF id_producto \notin DOMAIN st.indice_por_id
    THEN [st |-> st, ret |-> "False"]
    ELSE LET producto == st.indice_por_id[id_producto]
             puesto == precio_setter(st.objetos[producto], nuevo_precio)
         IN  [st |-> [st EXCEPT !.objetos[producto] = puesto.p],
              ret |-> IF puesto.ok THEN "True" ELSE "False"]

\* Semana 09: Inventario.buscar_por_nombre(texto).
Semana09_buscar_por_nombre(st, texto) ==
    LET t == strip(lowerStr(texto))
    IN  [st |-> st,
         ret |-> SelectSeq(st.productos,
                           LAMBDA r : Contiene(lowerStr(st.objetos[r].nombre), t))]

\* ------------------------------------------------------------------- state

VARIABLES
    objetos,        \* the Producto objects the store holds, by reference
    productos,      \* Inventario._productos
    indice_por_id,  \* Inventario._indice_por_id
    archivo,        \* the file ARCHIVO_INVENTARIO
    fase,           \* "sin_crear": no Inventario object; "listo": constructed;
                    \* "abortado": an exception left Inventario() and ended
                    \* the process
    ultima,         \* the last call: its name, what it returned, the
                    \* outcome of its file write and, when it changed the
                    \* store, its arguments
    fallos,         \* I/O faults injected so far
    refugio,        \* the Shelter object of the pet-adoption program
    biblioteca,     \* the Library object of the library program
    duelo           \* the call combate(j1, j2) of the combat program

vars == <<objetos, productos, indice_por_id, archivo, fase, ultima, fallos,
          refugio, biblioteca, duelo>>

\* The programs of the repository are separate processes: while one runs,
\* the objects of the others do not exist.
Ninguno == "ninguno"

Estado == [objetos |-> objetos, productos |-> productos,
           indice_por_id |-> indice_por_id, archivo |-> archivo]

\* ------------------------------------------------------------------ inputs

\* Ids passed by the caller: 0 is rejected by Producto and never stored.
IdsEntrada == { 0, 1, 2 }
CantidadesEntrada == { 0 - 1, 0, 1 }
PreciosEntrada == { Fin(0 - 1), Fin(0), NaN }

\* Arguments of Producto(...) passed by the caller: valid ones (a name to be
\* normalised, a nan price), then an id, a quantity and a price out of range.
ArgumentosProducto == {
    <<1, <<" ", "a", "b", " ">>, 1, Fin(0)>>,
    <<2, <<"b">>, 0, Fin(0)>>,
    <<1, <<"A", "B">>, 0, NaN>>,
    <<0, <<"b">>, 0, Fin(0)>>,
    <<2, <<"b">>, 0 - 1, Fin(0)>>,
    <<2, <<"b">>, 0, Fin(0 - 1)>> }

\* Lines of the file found at the first start: well-formed, the same id
\* again with other values, a name not in title case with a price written
\* as an int, three fields, a negative quantity, a nan price.
LineasDePrueba == {
    <<"1", "|", "A", "b", "|", "1", "|", "0", ".", "0">>,
    <<"1", "|", "A", "b", "|", "0", "|", "0", ".", "0">>,
    <<"2", "|", "b", "|", "1", "|", "0">>,
    <<"1", "|", "B", "|", "0">>,
    <<"2", "|", "B", "|", "-", "1", "|", "0", ".", "0">>,
    <<"2", "|", "B", "|", "0", "|", "n", "a", "n">> }

RECURSIVE Secuencias(_, _)
Secuencias(S, n) ==
    IF n = 0 THEN { <<>> }
    ELSE LET cortas == Secuencias(S, n - 1)
         IN  cortas \cup { Append(q, x) : q \in { c \in cortas : Len(c) = n - 1 },
                                           x \in S }

ArchivosIniciales ==
    { ArchivoAusente }
    \cup { [existe |-> TRUE, lineas |-> l] : l \in Secuencias(LineasDePrueba, MaxLineas) }

\* The environment's outcome of one file operation: a fault is injected only
\* while the budget lasts; k (lines written before an OSError) is free only
\* for an OSError.
Entorno == { en \in ResultadosEscritura \X { 0, 1 } :
                /\ (en[1] # "ok" => fallos < MaxFallos)
                /\ (en[1] # "OSError" => en[2] = 0) }

SinLlamada == [op |-> "ninguna", id |-> 0, nombre |-> <<>>, cantidad |-> 0,
               precio |-> Fin(0), ret |-> "None", escritura |-> "ninguna"]

\* What is kept of a call: its arguments only when it changed the store.
Registro(op, ret, escritura, argumentos) ==
    IF ret = "True"
    THEN [argumentos EXCEPT !.op = op, !.ret = ret, !.escritura = escritura]
    ELSE [SinLlamada EXCEPT !.op = op, !.ret = ret]

Init ==
    /\ objetos = SinObjetos
    /\ productos = <<>>
    /\ indice_por_id = IndiceVacio
    /\ archivo \in ArchivosIniciales
    /\ fase = "sin_crear"
    /\ ultima = SinLlamada
    /\ fallos = 0
    /\ refugio = Ninguno /\ biblioteca = Ninguno /\ duelo = Ninguno

\* The store becomes st; a fault is counted when the file operation failed.
Pasa(st, escritura) ==
    /\ objetos' = st.objetos
    /\ productos' = st.productos
    /\ indice_por_id' = st.indice_por_id
    /\ archivo' = st.archivo
    /\ fallos' = IF escritura \in {"PermissionError", "OSError"}
                 THEN fallos + 1 ELSE fallos

\* inventario = Inventario()
Construir ==
    /\ fase = "sin_crear"
    /\ \E en \in Entorno :
          LET excepcion == cargar_desde_archivo_excepcion(archivo, en[1])
          IN  /\ en[2] = 0
              /\ Pasa(Inventario_init(archivo, en[1], en[1]), en[1])
              /\ ultima' = [SinLlamada EXCEPT
                               !.op = "init", !.escritura = en[1],
                               !.ret = IF excepcion = "ninguna" THEN "None"
                                       ELSE excepcion]
              /\ fase' = IF excepcion = "ninguna" THEN "listo" ELSE "abortado"
    /\ UNCHANGED <<refugio, biblioteca, duelo>>

\* Producto(id, nombre, cantidad, precio) and inventario.agregar_producto of
\* it; a ValueError of the constructor ends the call.
Agregar ==
    /\ fase = "listo"
    /\ \E a \in ArgumentosProducto, en \in Entorno :
          LET nuevo == Producto_init(a[1], a[2], a[3], a[4])
              r == agregar_producto(Estado, nuevo.p, en[1], en[2])
          IN  IF ~nuevo.ok
              THEN /\ en[1] = "ok"
                   /\ ultima' = Registro("agregar", "ValueError", "ninguna", SinLlamada)
                   /\ UNCHANGED <<objetos, productos, indice_por_id, archivo, fallos>>
              ELSE /\ (r.escritura = "ninguna" => en[1] = "ok")
                   /\ Pasa(r.st, r.escritura)
                   /\ ultima' = Registro("agregar", r.ret, r.escritura,
                                   [SinLlamada EXCEPT !.id = nuevo.p.id,
                                       !.nombre = nuevo.p.nombre,
                                       !.cantidad = nuevo.p.cantidad,
                                       !.precio = nuevo.p.precio])
    /\ UNCHANGED <<fase, refugio, biblioteca, duelo>>

\* inventario.eliminar_producto(id)
Eliminar ==
    /\ fase = "listo"
    /\ \E id \in IdsEntrada, en \in Entorno :
          LET r == eliminar_producto(Estado, id, en[1], en[2])
          IN  /\ (r.escritura = "ninguna" => en[1] = "ok")
              /\ Pasa(r.st, r.escritura)
              /\ ultima' = Registro("eliminar", r.ret, r.escritura,
                              [SinLlamada EXCEPT !.id = id])
    /\ UNCHANGED <<fase, refugio, biblioteca, duelo>>

\* inventario.actualizar_cantidad(id, nueva_cantidad)
ActualizarCantidad ==
    /\ fase = "listo"
    /\ \E id \in IdsEntrada, nueva_cantidad \in CantidadesEntrada, en \in Entorno :
          LET r == actualizar_cantidad(Estado, id, nueva_cantidad, en[1], en[2])
          IN  /\ (r.escritura = "ninguna" => en[1] = "ok")
              /\ Pasa(r.st, r.escritura)
              /\ ultima' = Registro("cantidad", r.ret, r.escritura,
                              [SinLlamada EXCEPT !.id = id,
                                  !.cantidad = nueva_cantidad])
    /\ UNCHANGED <<fase, refugio, biblioteca, duelo>>

\* inventario.actualizar_precio(id, nuevo_precio)
ActualizarPrecio ==
    /\ fase = "listo"
    /\ \E id \in IdsEntrada, nuevo_precio \in PreciosEntrada, en \in Entorno :
          LET r == actualizar_precio(Estado, id, nuevo_precio, en[1], en[2])
          IN  /\ (r.escritura = "ninguna" => en[1] = "ok")
              /\ Pasa(r.st, r.escritura)
              /\ ultima' = Registro("precio", r.ret, r.escritura,
                              [SinLlamada EXCEPT !.id = id,
                                  !.precio = nuevo_precio])
    /\ UNCHANGED <<fase, refugio, biblioteca, duelo>>

\* The process ends (main.py, option 7): the objects are gone, the file stays.
Salir ==
    /\ fase = "listo"
    /\ fase' = "sin_crear"
    /\ objetos' = SinObjetos
    /\ productos' = <<>>
    /\ indice_por_id' = IndiceVacio
    /\ ultima' = SinLlamada
    /\ UNCHANGED <<archivo, fallos, refugio, biblioteca, duelo>>

Next ==
    \/ Construir
    \/ Agregar
    \/ Eliminar
    \/ ActualizarCantidad
    \/ ActualizarPrecio
    \/ Salir

Spec == Init /\ [][Next]_vars

\* ------------------------------------------------- texts, names and queries

\* Lines of the file found at the first start, for the load taken alone:
\* well-formed; the same id again; blanks around the line and inside the
\* name; a blank line; three fields; five fields (what a name holding the
\* separator leaves); an id that is no number; a price that is no number; a
\* negative quantity; a byte that is not UTF-8.
LineasDeCarga == {
    <<"1", "|", "A", "b", "|", "1", "|", "0", ".", "0">>,
    <<"1", "|", "b", "|", "0", "|", "0">>,
    <<" ", "2", "|", "b", " ", "a", "|", "1", "|", "0", " ">>,
    <<" ">>,
    <<"2", "|", "b", "|", "0">>,
    <<"2", "|", "A", "|", "B", "|", "0", "|", "0", ".", "0">>,
    <<"a", "|", "b", "|", "0", "|", "0">>,
    <<"2", "|", "b", "|", "0", "|", "b">>,
    <<"2", "|", "b", "|", "-", "1", "|", "0">>,
    <<"2", "|", ByteInvalido, "|", "0", "|", "0">> }

ArchivosDeCarga ==
    { ArchivoAusente }
    \cup { [existe |-> TRUE, lineas |-> l] : l \in Secuencias(LineasDeCarga, MaxLineas) }

\* Names typed by the caller: plain, holding the separator, with blanks
\* around and inside, one letter.
NombresDePrueba == {
    <<"a", "b">>,
    <<"a", "|", "b">>,
    <<" ", "b", " ", "a">>,
    <<"B">> }

\* Ids typed with those names: 0 is rejected by Producto.
IdsDeNombres == { 0, 1, 2, 3 }

\* Texts searched for: in another case than the names, with a blank before,
\* the separator, with a blank inside.
TextosDeBusqueda == {
    <<"A">>,
    <<" ", "B">>,
    <<"|">>,
    <<"b", " ", "a">> }

\* No I/O fault is injected here: the budget is spent from the start.
InitTextos ==
    /\ objetos = SinObjetos
    /\ productos = <<>>
    /\ indice_por_id = IndiceVacio
    /\ archivo \in ArchivosDeCarga
    /\ fase = "sin_crear"
    /\ ultima = SinLlamada
    /\ fallos = MaxFallos
    /\ refugio = Ninguno /\ biblioteca = Ninguno /\ duelo = Ninguno

\* Producto(id, nombre, 0, 0.0) and inventario.agregar_producto of it.
AgregarNombre ==
    /\ fase = "listo"
    /\ \E id \in IdsDeNombres, nombre \in NombresDePrueba, en \in Entorno :
          LET nuevo == Producto_init(id, nombre, 0, Fin(0))
              r == agregar_producto(Estado, nuevo.p, en[1], en[2])
          IN  IF ~nuevo.ok
              THEN /\ ultima' = Registro("agregar", "ValueError", "ninguna", SinLlamada)
                   /\ UNCHANGED <<objetos, productos, indice_por_id, archivo, fallos>>
              ELSE /\ Pasa(r.st, r.escritura)
                   /\ ultima' = Registro("agregar", r.ret, r.escritura,
                                   [SinLlamada EXCEPT !.id = nuevo.p.id,
                                       !.nombre = nuevo.p.nombre,
                                       !.cantidad = nuevo.p.cantidad,
                                       !.precio = nuevo.p.precio])
    /\ UNCHANGED <<fase, refugio, biblioteca, duelo>>

\* inventario.buscar_por_nombre(busqueda) (main.py, option 5); the text
\* searched for is kept.
Buscar ==
    /\ fase = "listo"
    /\ \E texto \in TextosDeBusqueda :
          /\ Pasa(buscar_por_nombre(Estado, texto).st, "ninguna")
          /\ ultima' = [SinLlamada EXCEPT !.op = "buscar", !.nombre = texto]
    /\ UNCHANGED <<fase, refugio, biblioteca, duelo>>

\* inventario.mostrar_todos() (main.py, option 6)
MostrarTodos ==
    /\ fase = "listo"
    /\ Pasa(mostrar_todos(Estado).st, "ninguna")
    /\ ultima' = [SinLlamada EXCEPT !.op = "mostrar"]
    /\ UNCHANGED <<fase, refugio, biblioteca, duelo>>

NextTextos ==
    \/ Construir
    \/ AgregarNombre
    \/ Buscar
    \/ MostrarTodos
    \/ Salir

SpecTextos == InitTextos /\ [][NextTextos]_vars

\* ------------------------------------------------------------ observations

\* The product at place i of the list.
Prod(i) == objetos[productos[i]]

\* The products of a list of references, in order.
ContenidoDe(objs, prods) == [i \in 1..Len(prods) |-> objs[prods[i]]]
Contenido == ContenidoDe(objetos, productos)

\* str.join
RECURSIVE Unir(_, _)
Unir(campos, sep) ==
    IF Len(campos) = 0 THEN <<>>
    ELSE IF Len(campos) = 1 THEN campos[1]
    ELSE campos[1] \o <<sep>> \o Unir(Tail(campos), sep)

Mutaciones == {"agregar", "eliminar", "cantidad", "precio"}

\* ------------------------------------------------------------------ claims

\* C1: the id map and the ordered list hold the same products: every listed
\* product is the map's value under its own id, every map value is listed,
\* and contar_productos() is the number of map keys.
C1_MapaYListaIguales ==
    /\ \A i \in 1..Len(productos) :
          /\ productos[i] \in DOMAIN objetos
          /\ Prod(i).id \in DOMAIN indice_por_id
          /\ indice_por_id[Prod(i).id] = productos[i]
    /\ \A id \in DOMAIN indice_por_id :
          \E i \in 1..Len(productos) : productos[i] = indice_por_id[id]
    /\ contar_productos(Estado) = Cardinality(DOMAIN indice_por_id)

\* C1 witness: a product was removed while the save failed, another stays.
C1_Testigo ==
    /\ ultima.op = "eliminar" /\ ultima.ret = "True"
    /\ ultima.escritura # "ok"
    /\ Len(productos) = 1

\* C2: after a mutation that reports success and whose write succeeds, the
\* file has one line per product, in list order, each id|name|quantity|price,
\* and nothing else.
C2_ArchivoEsInstantanea ==
    (ultima.op \in Mutaciones /\ ultima.ret = "True" /\ ultima.escritura = "ok")
    => /\ archivo.existe
       /\ Len(archivo.lineas) = Len(productos)
       /\ \A i \in 1..Len(productos) :
             archivo.lineas[i] =
                 Unir(<<IntToStr(Prod(i).id), Prod(i).nombre,
                        IntToStr(Prod(i).cantidad), FloatToStr(Prod(i).precio)>>,
                      "|")

\* C2 witness: a price update saved two products after an earlier I/O fault.
C2_Testigo ==
    /\ ultima.op = "precio" /\ ultima.ret = "True" /\ ultima.escritura = "ok"
    /\ Len(productos) = 2
    /\ fallos = 1

\* C3 (as claimed): every stored product has id > 0, quantity >= 0 and
\* price >= 0. Violated: nan is not < 0, so Producto and the precio setter
\* accept it, and nan >= 0 is false.
C3_ValoresEnRango ==
    \A r \in DOMAIN objetos :
        objetos[r].id > 0 /\ objetos[r].cantidad >= 0 /\ NoNegativo(objetos[r].precio)

\* C4: no two products of the list have the same id.
C4_IdUnico ==
    \A i, j \in 1..Len(productos) : i # j => Prod(i).id # Prod(j).id

\* C4 witness: the store was loaded from a file whose two lines have id 1.
C4_Testigo ==
    /\ ultima.op = "init" /\ ultima.escritura = "ok"
    /\ Len(archivo.lineas) = 2
    /\ \A i \in 1..2 : split(archivo.lineas[i], SEPARADOR)[1] = <<"1">>
    /\ \A i \in 1..2 : Len(split(archivo.lineas[i], SEPARADOR)) = 4
    /\ Len(productos) = 1

\* What a rejected call returns: the store as it was, False, no file write.
Rechazo == [st |-> Estado, ret |-> "False", escritura |-> "ninguna"]

\* Every outcome of the environment, whatever the fault budget.
TodoEntorno == ResultadosEscritura \X { 0, 1 }

\* Valid products the caller can pass to agregar_producto.
ProductosValidos ==
    { Producto_init(a[1], a[2], a[3], a[4]).p :
        a \in { b \in ArgumentosProducto : Producto_init(b[1], b[2], b[3], b[4]).ok } }

\* The product the last agregar_producto was called with.
ProductoAgregado(u) == [id |-> u.id, nombre |-> u.nombre,
                        cantidad |-> u.cantidad, precio |-> u.precio]

\* C5: agregar_producto of a product whose id is present returns False and
\* leaves the store (products, order, values, file) as it was, in every
\* reachable state and for every product and I/O outcome.
C5_AgregarDuplicadoRechazado ==
    fase = "listo" =>
        \A p \in ProductosValidos, en \in TodoEntorno :
            p.id \in DOMAIN indice_por_id
            => agregar_producto(Estado, p, en[1], en[2]) = Rechazo

\* C5 witness: an add was rejected while the product with that id holds
\* values other than those passed.
C5_Testigo ==
    /\ ultima.op = "agregar" /\ ultima.ret = "False"
    /\ \E i \in 1..Len(productos) :
          \E p \in ProductosValidos : p.id = Prod(i).id /\ p # Prod(i)

\* C6: agregar_producto of a product whose id is absent returns True, puts the
\* product last in the list and under its id in the map, keeps every earlier
\* product at its place with its values, and opens the file for a full
\* rewrite, which leaves exactly the snapshot when it succeeds.
C6_AgregarNuevo ==
    /\ [](fase = "listo" =>
            \A p \in ProductosValidos, en \in TodoEntorno :
                p.id \notin DOMAIN indice_por_id
                => agregar_producto(Estado, p, en[1], en[2]).ret = "True")
    /\ [][(ultima'.op = "agregar" /\ ultima'.ret = "True")
          => /\ ultima'.id \notin DOMAIN indice_por_id
             /\ Len(productos') = Len(productos) + 1
             /\ ContenidoDe(objetos', productos')
                    = Append(Contenido, ProductoAgregado(ultima'))
             /\ DOMAIN indice_por_id' = DOMAIN indice_por_id \cup {ultima'.id}
             /\ indice_por_id'[ultima'.id] = productos'[Len(productos')]
             /\ \A id \in DOMAIN indice_por_id :
                   objetos'[indice_por_id'[id]] = objetos[indice_por_id[id]]
             /\ ultima'.escritura \in ResultadosEscritura
             /\ (ultima'.escritura = "ok"
                    => archivo' = [existe |-> TRUE,
                                   lineas |-> [i \in 1..Len(productos') |->
                                       linea_de(objetos'[productos'[i]])]])]_vars

\* C6 witness: a second product was added and saved.
C6_Testigo ==
    /\ ultima.op = "agregar" /\ ultima.ret = "True" /\ ultima.escritura = "ok"
    /\ Len(productos) = 2

\* The list of products without those of the given id.
RECURSIVE SinId(_, _)
SinId(contenido, id) ==
    IF contenido = <<>> THEN <<>>
    ELSE IF Head(contenido).id = id THEN SinId(Tail(contenido), id)
    ELSE <<Head(contenido)>> \o SinId(Tail(contenido), id)

\* C7: eliminar_producto of a present id returns True; the count drops by
\* one; that product and no other leaves the list and the map; while the id
\* is absent every eliminar / actualizar of it is rejected, and the id comes
\* back to a store only by an agregar_producto of it that returns True.
C7_EliminarPresente ==
    /\ [](fase = "listo" =>
            \A id \in IdsEntrada, en \in TodoEntorno :
                /\ id \in DOMAIN indice_por_id
                    => eliminar_producto(Estado, id, en[1], en[2]).ret = "True"
                /\ id \notin DOMAIN indice_por_id
                    => /\ eliminar_producto(Estado, id, en[1], en[2]).ret = "False"
                       /\ \A c \in CantidadesEntrada :
                            actualizar_cantidad(Estado, id, c, en[1], en[2]).ret = "False"
                       /\ \A x \in PreciosEntrada :
                            actualizar_precio(Estado, id, x, en[1], en[2]).ret = "False")
    /\ [][(ultima'.op = "eliminar" /\ ultima'.ret = "True")
          => /\ ultima'.id \in DOMAIN indice_por_id
             /\ Len(productos') = Len(productos) - 1
             /\ ContenidoDe(objetos', productos') = SinId(Contenido, ultima'.id)
             /\ DOMAIN indice_por_id' = DOMAIN indice_por_id \ {ultima'.id}
             /\ \A id \in DOMAIN indice_por_id' :
                   objetos'[indice_por_id'[id]] = objetos[indice_por_id[id]]]_vars
    /\ [][(fase = "listo" /\ fase' = "listo")
          => \A id \in DOMAIN indice_por_id' \ DOMAIN indice_por_id :
                ultima'.op = "agregar" /\ ultima'.ret = "True" /\ ultima'.id = id]_vars

\* C7 witness: the first of two products was removed.
C7_Testigo ==
    /\ ultima.op = "eliminar" /\ ultima.ret = "True"
    /\ Len(productos) = 1
    /\ \E i \in 1..Len(productos) : Prod(i).id > ultima.id

\* C8: eliminar_producto, actualizar_cantidad and actualizar_precio of an
\* absent id return False and change nothing, in every reachable state and
\* for every value and I/O outcome.
C8_IdAusenteRechazado ==
    fase = "listo" =>
        \A id \in IdsEntrada \ DOMAIN indice_por_id, en \in TodoEntorno :
            /\ eliminar_producto(Estado, id, en[1], en[2]) = Rechazo
            /\ \A c \in CantidadesEntrada :
                  actualizar_cantidad(Estado, id, c, en[1], en[2]) = Rechazo
            /\ \A x \in PreciosEntrada :
                  actualizar_precio(Estado, id, x, en[1], en[2]) = Rechazo

\* C8 witness: a removal was rejected in a store that holds a product.
C8_Testigo ==
    /\ ultima.op = "eliminar" /\ ultima.ret = "False"
    /\ Len(productos) >= 1

\* Negative values passed to the updates.
CantidadesNegativas == { 0 - 2, 0 - 1 }
PreciosNegativos == { Fin(0 - 2), Fin(0 - 1) }

\* C9: actualizar_cantidad and actualizar_precio of a present id with a
\* negative value return False and leave the store as it was.
C9_ValorNegativoRechazado ==
    fase = "listo" =>
        \A id \in DOMAIN indice_por_id, en \in TodoEntorno :
            /\ \A c \in CantidadesNegativas :
                  actualizar_cantidad(Estado, id, c, en[1], en[2]) = Rechazo
            /\ \A x \in PreciosNegativos :
                  actualizar_precio(Estado, id, x, en[1], en[2]) = Rechazo

\* C9 witness: a quantity update was rejected for the only id that is not
\* 0, so for a present id.
C9_Testigo ==
    /\ ultima.op = "cantidad" /\ ultima.ret = "False"
    /\ DOMAIN indice_por_id = IdsEntrada \ {0}

\* C10: a successful actualizar_cantidad(id, v) sets the quantity of the
\* product with that id to v, a successful actualizar_precio(id, v) its
\* price; the list, the map and every other field and product are as before;
\* and an update of a present id with a value that is not negative succeeds.
C10_ActualizarSoloElCampo ==
    /\ [](fase = "listo" =>
            \A id \in DOMAIN indice_por_id, en \in TodoEntorno :
                /\ \A c \in CantidadesEntrada :
                      c >= 0 => actualizar_cantidad(Estado, id, c, en[1], en[2]).ret = "True"
                /\ \A x \in PreciosEntrada :
                      NoNegativo(x) => actualizar_precio(Estado, id, x, en[1], en[2]).ret = "True")
    /\ [][(ultima'.op = "cantidad" /\ ultima'.ret = "True")
          => /\ ultima'.id \in DOMAIN indice_por_id
             /\ productos' = productos
             /\ indice_por_id' = indice_por_id
             /\ objetos' = [objetos EXCEPT
                              ![indice_por_id[ultima'.id]].cantidad = ultima'.cantidad]]_vars
    /\ [][(ultima'.op = "precio" /\ ultima'.ret = "True")
          => /\ ultima'.id \in DOMAIN indice_por_id
             /\ productos' = productos
             /\ indice_por_id' = indice_por_id
             /\ objetos' = [objetos EXCEPT
                              ![indice_por_id[ultima'.id]].precio = ultima'.precio]]_vars

\* C10 witness: the price of the first of two products was set to 0 while
\* its quantity is 1.
C10_Testigo ==
    /\ ultima.op = "precio" /\ ultima.ret = "True" /\ ultima.precio = Fin(0)
    /\ Len(productos) = 2
    /\ Prod(1).id = ultima.id /\ Prod(1).cantidad = 1 /\ Prod(1).precio = Fin(0)

\* The fields of a line of the file.
Campos(l) == split(strip(l), SEPARADOR)

\* A line that is not blank, has exactly four fields, parses as (integer,
\* text, integer, decimal) and passes the validation of Producto.
LineaValida(l) ==
    /\ strip(l) # <<>>
    /\ Len(Campos(l)) = 4
    /\ StrToInt(Campos(l)[1]).ok
    /\ StrToInt(Campos(l)[3]).ok
    /\ StrToFloat(Campos(l)[4]).ok
    /\ Producto_init(StrToInt(Campos(l)[1]).v, Campos(l)[2],
                     StrToInt(Campos(l)[3]).v, StrToFloat(Campos(l)[4]).v).ok

\* The product a valid line stands for.
ProductoDeLinea(l) ==
    Producto_init(StrToInt(Campos(l)[1]).v, Campos(l)[2],
                  StrToInt(Campos(l)[3]).v, StrToFloat(Campos(l)[4]).v).p

\* Line i is valid and its id is that of no accepted line before it.
RECURSIVE Aceptada(_, _)
Aceptada(lineas, i) ==
    /\ LineaValida(lineas[i])
    /\ \A j \in 1..(i - 1) :
          Aceptada(lineas, j)
          => ProductoDeLinea(lineas[j]).id # ProductoDeLinea(lineas[i]).id

\* The products of the accepted lines among the first n, in file order.
RECURSIVE ProductosAceptados(_, _)
ProductosAceptados(lineas, n) ==
    IF n = 0 THEN <<>>
    ELSE ProductosAceptados(lineas, n - 1)
         \o (IF Aceptada(lineas, n) THEN <<ProductoDeLinea(lineas[n])>> ELSE <<>>)

\* C11 (as claimed): for any content of the file read at startup the load
\* ends with a store that holds, in file order, exactly the products of the
\* accepted lines; no line makes it abort. Violated: a line with a byte
\* that is not UTF-8 makes readlines() raise UnicodeDecodeError, which the
\* load does not catch (the defect of C15).
C11_CargaTolerante ==
    (ultima.op = "init" /\ ultima.escritura = "ok")
    => /\ fase = "listo"
       /\ Contenido = ProductosAceptados(archivo.lineas, Len(archivo.lineas))

\* The same for the files that decode: the part of C11 the code keeps.
CargaTolerante_Decodificable ==
    (ultima.op = "init" /\ ultima.escritura = "ok" /\ Decodificable(archivo.lineas))
    => /\ fase = "listo"
       /\ Contenido = ProductosAceptados(archivo.lineas, Len(archivo.lineas))

\* A new store loaded from the file that a successful save of st writes.
Recargado(st) == Inventario_init(guardar_en_archivo(st, "ok", 0).archivo, "ok", "ok")

\* Every stored product has id > 0, quantity >= 0 and price >= 0.
TodosEnRango ==
    \A i \in 1..Len(productos) :
        Prod(i).id > 0 /\ Prod(i).cantidad >= 0 /\ NoNegativo(Prod(i).precio)

\* C12 (as claimed): Producto(...) succeeds for every id > 0, quantity >= 0,
\* price >= 0 and any name, and after a mutation that was saved a new store
\* loaded from the file holds the same products (id, name, quantity, price)
\* in the same order. Violated: a name that holds the separator is written
\* as it is, its line has five fields and the load skips it.
C12_IdaYVuelta ==
    /\ \A id \in IdsDeNombres, nombre \in NombresDePrueba,
          c \in CantidadesEntrada, x \in PreciosEntrada :
            (id > 0 /\ c >= 0 /\ NoNegativo(x)) => Producto_init(id, nombre, c, x).ok
    /\ (/\ fase = "listo"
        /\ ultima.op \in Mutaciones /\ ultima.ret = "True" /\ ultima.escritura = "ok"
        /\ TodosEnRango)
       => ContenidoDe(Recargado(Estado).objetos, Recargado(Estado).productos) = Contenido

\* The outcomes of a write that failed.
EscrituraFallida == {"PermissionError", "OSError"}

\* The list of products a mutation u that reported success makes of c.
EfectoEnMemoria(u, c) ==
    CASE u.op = "agregar" -> Append(c, ProductoAgregado(u))
      [] u.op = "eliminar" -> SinId(c, u.id)
      [] u.op = "cantidad" ->
            [i \in 1..Len(c) |-> IF c[i].id = u.id
                                  THEN [c[i] EXCEPT !.cantidad = u.cantidad]
                                  ELSE c[i]]
      [] u.op = "precio" ->
            [i \in 1..Len(c) |-> IF c[i].id = u.id
                                  THEN [c[i] EXCEPT !.precio = u.precio]
                                  ELSE c[i]]

\* A mutation reported success and its write failed (of the next state when
\* primed).
MutacionSinGuardar ==
    ultima.op \in Mutaciones /\ ultima.ret = "True" /\ ultima.escritura \in EscrituraFallida

\* The mutation of a step whose write failed is in memory all the same, and
\* a refused open leaves the file as it was.
MutacionConservada ==
    MutacionSinGuardar'
    => /\ ContenidoDe(objetos', productos') = EfectoEnMemoria(ultima', Contenido)
       /\ ultima'.escritura = "PermissionError" => archivo' = archivo

\* A mutation whose write succeeds on a file that differs from memory makes
\* the file the full snapshot of memory.
ArchivoRecuperado ==
    (/\ fase = "listo" /\ archivo.lineas # Instantanea(Estado)
     /\ ultima'.op \in Mutaciones /\ ultima'.ret = "True" /\ ultima'.escritura = "ok")
    => archivo' = [existe |-> TRUE, lineas |-> Instantanea(Estado')]

\* C13 (as claimed): after a mutation whose write failed the mutation is in
\* memory, the file differs from memory, and the next mutation whose write
\* succeeds makes the file the snapshot of memory. Violated: an update to
\* the value the product already has, or a removal of the last product with
\* the file truncated, leaves file and memory equal.
C13_FalloDeEscritura ==
    /\ [](MutacionSinGuardar => archivo.lineas # Instantanea(Estado))
    /\ [][MutacionConservada]_vars
    /\ [][ArchivoRecuperado]_vars

\* C13 (amended): after a mutation whose write failed the mutation is in
\* memory; the file keeps its content when the open was refused, and may
\* differ from memory (it need not); the next mutation whose write succeeds
\* makes the file the snapshot of memory.
C13_FalloDeEscrituraEnmendado ==
    /\ [][MutacionConservada]_vars
    /\ [][ArchivoRecuperado]_vars

\* C13 witness: an add was kept in memory while its write was refused, and
\* the file lacks the product.
C13_Testigo ==
    /\ ultima.op = "agregar" /\ ultima.ret = "True"
    /\ ultima.escritura = "PermissionError"
    /\ Len(productos) = 2 /\ Len(archivo.lineas) = 1

\* C14 (as claimed): the status a mutation returns tells its caller that the
\* save failed: it is not the status of a mutation that was saved. Violated:
\* _guardar_en_archivo prints the error and returns None, and the mutation
\* returns True as when the save succeeds.
C14_FalloInformado ==
    (ultima.op \in Mutaciones /\ ultima.escritura \in EscrituraFallida)
    => ultima.ret # "True"

\* C15 (as claimed): no exception leaves the store, whatever the file and
\* the arguments: Inventario() and every operation return to their caller.
\* Violated: UnicodeDecodeError leaves Inventario() when the file holds a
\* byte that is not UTF-8.
C15_NingunErrorFatal ==
    fase # "abortado"

\* C16: with no file at startup the store starts empty and, when the file
\* can be created, an empty file exists after the load; an add into the
\* empty store that reports success and whose write succeeds then leaves
\* the file with exactly one line, that of the product.
C16_ArchivoAusente ==
    /\ [][(~archivo.existe /\ ultima'.op = "init")
          => /\ fase' = "listo"
             /\ contar_productos(Estado') = 0
             /\ indice_por_id' = IndiceVacio
             /\ ultima'.escritura = "ok"
                    => archivo' = [existe |-> TRUE, lineas |-> <<>>]]_vars
    /\ [][(/\ fase = "listo" /\ productos = <<>>
           /\ ultima'.op = "agregar" /\ ultima'.ret = "True"
           /\ ultima'.escritura = "ok")
          => /\ archivo'.existe
             /\ archivo'.lineas =
                    << Unir(<<IntToStr(ultima'.id), ultima'.nombre,
                              IntToStr(ultima'.cantidad),
                              FloatToStr(ultima'.precio)>>, "|") >>]_vars

\* C16 witness: the first add into an empty store was saved, after a start
\* without fault: the file has one line.
C16_Testigo ==
    /\ ultima.op = "agregar" /\ ultima.ret = "True" /\ ultima.escritura = "ok"
    /\ Len(productos) = 1 /\ Len(archivo.lineas) = 1
    /\ fallos = 0

\* t occurs in n: some stretch of n, the empty one included, is t.
Ocurre(n, t) ==
    \E i \in 1..(Len(n) + 1), j \in 0..Len(n) : SubSeq(n, i, j) = t

\* The place of reference r in the list.
Lugar(lista, r) == CHOOSE i \in 1..Len(lista) : lista[i] = r

\* lista holds exactly the products of the store that satisfy Cumple, once
\* each, in the order of the store.
ExactamenteEnOrden(lista, Cumple(_)) ==
    /\ \A i \in 1..Len(lista) :
          \E j \in 1..Len(productos) : productos[j] = lista[i] /\ Cumple(lista[i])
    /\ \A j \in 1..Len(productos) :
          Cumple(productos[j]) => \E i \in 1..Len(lista) : lista[i] = productos[j]
    /\ \A i, j \in 1..Len(lista) :
          i < j => Lugar(productos, lista[i]) < Lugar(productos, lista[j])

\* A search leaves the store and the file as they are.
BuscarSinEfecto ==
    ultima'.op = "buscar" => UNCHANGED <<objetos, productos, indice_por_id, archivo>>

\* C17 (as claimed): buscar_por_nombre(texto) returns exactly the products
\* whose name contains texto ignoring case, in the order of the store, and
\* changes neither store nor file. Violated: the text is stripped first, so
\* " B" finds the names that hold "b" and none of them holds " b".
C17_BuscarPorNombre ==
    /\ [](ultima.op = "buscar"
            => ExactamenteEnOrden(
                   buscar_por_nombre(Estado, ultima.nombre).ret,
                   LAMBDA r : Ocurre(lowerStr(objetos[r].nombre),
                                     lowerStr(ultima.nombre))))
    /\ [][BuscarSinEfecto]_vars

\* C17 (amended): buscar_por_nombre(texto) returns exactly the products
\* whose name contains, ignoring case, texto without its leading and
\* trailing blanks, in the order of the store, and changes neither store
\* nor file.
C17_BuscarPorNombreEnmendado ==
    /\ [](fase = "listo"
            => \A texto \in TextosDeBusqueda :
                  ExactamenteEnOrden(
                      buscar_por_nombre(Estado, texto).ret,
                      LAMBDA r : Ocurre(lowerStr(objetos[r].nombre),
                                        strip(lowerStr(texto)))))
    /\ [][BuscarSinEfecto]_vars

\* C17 witness: a search in another case than the names found two of three
\* products, the first and the last.
C17_Testigo ==
    /\ ultima.op = "buscar" /\ ultima.nombre = <<"A">>
    /\ Len(productos) = 3
    /\ buscar_por_nombre(Estado, ultima.nombre).ret = <<productos[1], productos[3]>>

\* The names of a list of references are in ascending order.
OrdenadaPorNombre(lista) ==
    \A i, j \in 1..Len(lista) :
        i < j => MenorOIgual(objetos[lista[i]].nombre, objetos[lista[j]].nombre)

TieneSeparador(nombre) == \E i \in 1..Len(nombre) : nombre[i] = SEPARADOR

\* C19: a product whose name holds the separator is constructed and, its id
\* being absent, added with success; its line of the snapshot has more than
\* four fields; and a new store loaded from the saved file holds the other
\* products, in order and with their values, and not that one.
C19_SeparadorSinEscapar ==
    fase = "listo"
    => /\ \A id \in IdsDeNombres, nombre \in NombresDePrueba :
             (id > 0 /\ TieneSeparador(nombre))
             => /\ Producto_init(id, nombre, 0, Fin(0)).ok
                /\ TieneSeparador(Producto_init(id, nombre, 0, Fin(0)).p.nombre)
                /\ id \notin DOMAIN indice_por_id
                      => agregar_producto(Estado, Producto_init(id, nombre, 0, Fin(0)).p,
                                          "ok", 0).ret = "True"
       /\ \A i \in 1..Len(productos) :
             TieneSeparador(Prod(i).nombre)
             => Len(split(Instantanea(Estado)[i], SEPARADOR)) > 4
       /\ ContenidoDe(Recargado(Estado).objetos, Recargado(Estado).productos)
             = SelectSeq(Contenido, LAMBDA q : ~TieneSeparador(q.nombre))

\* C19 witness: a store was loaded from the file a session left with the
\* line of product 3, named "A|B", and that of another product: it holds
\* the other product only.
C19_Testigo ==
    /\ ultima.op = "init" /\ fase = "listo"
    /\ Len(archivo.lineas) = 2
    /\ \E i \in 1..2 :
          archivo.lineas[i] = <<"3", "|", "A", "|", "B", "|", "0", "|", "0", ".", "0">>
    /\ Len(productos) = 1

\* Values passed to the updates, the negative ones included.
CantidadesDeRechazo == CantidadesEntrada \cup CantidadesNegativas
PreciosDeRechazo == PreciosEntrada \cup PreciosNegativos

\* The call returned False and its result holds the file as it is, which
\* was not opened.
NoEscribeSiRechaza(r) ==
    r.ret = "False" => (r.st.archivo = archivo /\ r.escritura = "ninguna")

\* C20: a mutation that returns False (an add of a present id, a removal or
\* an update of an absent id, an update with a negative value) does not
\* open the file: its content stays what it was, also when it differs from
\* memory.
C20_RechazoNoEscribe ==
    /\ [](fase = "listo"
            => \A en \in TodoEntorno :
                  /\ \A q \in ProductosValidos :
                        NoEscribeSiRechaza(agregar_producto(Estado, q, en[1], en[2]))
                  /\ \A id \in IdsEntrada :
                        /\ NoEscribeSiRechaza(eliminar_producto(Estado, id, en[1], en[2]))
                        /\ \A c \in CantidadesDeRechazo :
                              NoEscribeSiRechaza(
                                  actualizar_cantidad(Estado, id, c, en[1], en[2]))
                        /\ \A x \in PreciosDeRechazo :
                              NoEscribeSiRechaza(
                                  actualizar_precio(Estado, id, x, en[1], en[2])))
    /\ [][(ultima'.op \in Mutaciones /\ ultima'.ret = "False")
          => archivo' = archivo]_vars

\* C20 witness: an update was rejected while the file, after a failed write,
\* lacks a product that memory holds.
C20_Testigo ==
    /\ ultima.op = "cantidad" /\ ultima.ret = "False"
    /\ fallos = 1
    /\ Len(productos) = 2 /\ Len(archivo.lineas) = 1

\* Some line of the file is one the load skips: it is not valid, or its id
\* is that of an accepted line before it.
HayLineasSaltadas(lineas) ==
    \E i \in 1..Len(lineas) : strip(lineas[i]) # <<>> /\ ~Aceptada(lineas, i)

\* A mutation reported success and its write succeeded (of the next state
\* when primed).
MutacionGuardada ==
    ultima.op \in Mutaciones /\ ultima.ret = "True" /\ ultima.escritura = "ok"

\* Inventario() on an existing file leaves the file as it found it.
CargaNoModifica ==
    (archivo.existe /\ ultima'.op = "init") => archivo' = archivo

\* After a load that skipped lines the file, which holds them, is not the
\* snapshot of memory.
SaltadasSiguenTrasCargar ==
    (/\ fase = "listo" /\ ultima.op = "init" /\ ultima.escritura = "ok"
     /\ HayLineasSaltadas(archivo.lineas))
    => archivo.lineas # Instantanea(Estado)

\* The write of a mutation that is saved leaves the snapshot of memory and
\* nothing else: every line of the file is that of a stored product, so
\* none is a line the load had skipped.
GuardadoQuitaSaltadas ==
    MutacionGuardada'
    => /\ archivo'.lineas = Instantanea(Estado')
       /\ \A i \in 1..Len(archivo'.lineas) :
             archivo'.lineas[i] = linea_de(objetos'[productos'[i]])

LecturaFallida ==
    (archivo.existe /\ ultima'.op = "init" /\ ultima'.escritura \in EscrituraFallida)
    => /\ fase' = "listo"
       /\ productos' = <<>> /\ indice_por_id' = IndiceVacio /\ objetos' = SinObjetos
       /\ archivo' = archivo

\* While the store lives, a product it holds was held before the step, under
\* the same id, or is the one the step added.
SoloEntraLoAgregado ==
    (fase = "listo" /\ fase' = "listo")
    => \A i \in 1..Len(productos') :
          \/ objetos'[productos'[i]].id \in DOMAIN indice_por_id
          \/ /\ ultima'.op = "agregar" /\ ultima'.ret = "True"
             /\ objetos'[productos'[i]] = ProductoAgregado(ultima')

\* C22: when the read of an existing file fails at startup the store starts
\* empty and the file is untouched; the products of the store are then those
\* added since, and a mutation that is saved leaves the file with the
\* snapshot of the store and nothing of its previous content: the first add
\* saved into the still empty store leaves its one line.
C22_LecturaFallidaYReemplazo ==
    /\ [][LecturaFallida]_vars
    /\ [][SoloEntraLoAgregado]_vars
    /\ [][MutacionGuardada'
          => archivo' = [existe |-> TRUE, lineas |-> Instantanea(Estado')]]_vars
    /\ [][(fase = "listo" /\ productos = <<>> /\ MutacionGuardada')
          => /\ ultima'.op = "agregar"
             /\ archivo'.lineas = << linea_de(ProductoAgregado(ultima')) >>]_vars

\* C22 witness: the read of a file with two valid records was refused; the
\* store is empty and the file holds both.
C22_Testigo ==
    /\ fase = "listo" /\ ultima.op = "init" /\ ultima.escritura = "PermissionError"
    /\ productos = <<>>
    /\ Len(archivo.lineas) = 2
    /\ \A i \in 1..Len(archivo.lineas) : Aceptada(archivo.lineas, i)

\* The ids of a list of products, and the place of the product of an id.
IdsDe(c) == { c[i].id : i \in 1..Len(c) }
LugarDeId(c, id) == CHOOSE i \in 1..Len(c) : c[i].id = id

\* Two products that are in both lists are in the same order in both.
MismoOrden(antes, despues) ==
    \A a, b \in IdsDe(antes) \cap IdsDe(despues) :
        LugarDeId(antes, a) < LugarDeId(antes, b)
        => LugarDeId(despues, a) < LugarDeId(despues, b)

\* The products of a store, in the order of its list.
ContenidoTras(st) == ContenidoDe(st.objetos, st.productos)

\* Products passed to agregar_producto: every id with every name.
ProductosDeNombres ==
    { Producto_init(id, nombre, 0, Fin(0)).p :
        id \in IdsDeNombres \ {0}, nombre \in NombresDePrueba }

\* Outcomes of the file write under which the calls are compared: granted,
\* refused, failed after one line.
EntornoDeOrden == { <<"ok", 0>>, <<"PermissionError", 0>>, <<"OSError", 1>> }

\* Every call on the store leaves the products it keeps in their order.
NingunaOperacionReordena ==
    /\ \A en \in EntornoDeOrden, id \in IdsDeNombres :
          /\ MismoOrden(Contenido,
                        ContenidoTras(eliminar_producto(Estado, id, en[1], en[2]).st))
          /\ \A c \in CantidadesEntrada :
                MismoOrden(Contenido,
                    ContenidoTras(actualizar_cantidad(Estado, id, c, en[1], en[2]).st))
          /\ \A x \in PreciosEntrada :
                MismoOrden(Contenido,
                    ContenidoTras(actualizar_precio(Estado, id, x, en[1], en[2]).st))
    /\ \A texto \in TextosDeBusqueda :
          MismoOrden(Contenido, ContenidoTras(buscar_por_nombre(Estado, texto).st))
    /\ MismoOrden(Contenido, ContenidoTras(mostrar_todos(Estado).st))

\* An add leaves the products held in their order, and when it is accepted
\* the product is last, after every product held.
AgregadoAlFinal ==
    \A p \in ProductosDeNombres, en \in EntornoDeOrden :
        LET r == agregar_producto(Estado, p, en[1], en[2])
        IN  IF r.ret = "True"
            THEN ContenidoTras(r.st) = Append(Contenido, p)
            ELSE ContenidoTras(r.st) = Contenido

\* A product that is removed and added again is last, and the others are in
\* the order they had.
ReagregadoAlFinal ==
    \A id \in DOMAIN indice_por_id, en \in EntornoDeOrden :
        LET p == objetos[indice_por_id[id]]
            quitado == eliminar_producto(Estado, id, en[1], en[2]).st
            vuelto == agregar_producto(quitado, p, en[1], en[2]).st
        IN  ContenidoTras(vuelto) = Append(SinId(Contenido, id), p)

\* C23: the list is in insertion order: no call changes the order of two
\* products held before and after it, a load lists the products in the order
\* of their lines, an add puts the product last, and a product removed and
\* added again is last.
C23_OrdenDeInsercion ==
    /\ [](fase = "listo" =>
            /\ NingunaOperacionReordena
            /\ AgregadoAlFinal
            /\ ReagregadoAlFinal)
    /\ []((fase = "listo" /\ ultima.op = "init" /\ archivo.existe)
            => Contenido = ProductosAceptados(archivo.lineas, Len(archivo.lineas)))
    /\ [][(fase = "listo" /\ fase' = "listo")
          => MismoOrden(Contenido, ContenidoDe(objetos', productos'))]_vars

\* C23 witness: a third product was added and is last, after two products
\* that are not in the order of their ids.
C23_Testigo ==
    /\ ultima.op = "agregar" /\ ultima.ret = "True"
    /\ Len(productos) = 3
    /\ Prod(3).id = ultima.id
    /\ Prod(1).id > Prod(2).id

\* The part of a persistent store that the store of Semana 09 has as well.
Memoria(st) ==
    [objetos |-> st.objetos, productos |-> st.productos,
     indice_por_id |-> st.indice_por_id]

\* What a call of the persistent store returns and leaves in memory.
EnMemoria(r) == [st |-> Memoria(r.st), ret |-> r.ret]

\* Inventario() on a missing or empty file starts as the store of Semana 09
\* does, whatever the outcome of the read or of the creation of the file.
MismoComienzo ==
    (~archivo.existe \/ archivo.lineas = <<>>)
    => \A e \in ResultadosEscritura :
          Memoria(Inventario_init(archivo, e, e)) = Semana09_Inventario_init

\* From the same memory, every call with every argument and every outcome of
\* the file write returns in both stores the same status and leaves the same
\* products in the same order.
MismoPaso ==
    \A en \in EntornoDeOrden :
        /\ \A p \in ProductosValidos :
              EnMemoria(agregar_producto(Estado, p, en[1], en[2]))
                  = Semana09_agregar_producto(Memoria(Estado), p)
        /\ \A id \in IdsEntrada :
              /\ EnMemoria(eliminar_producto(Estado, id, en[1], en[2]))
                    = Semana09_eliminar_producto(Memoria(Estado), id)
              /\ \A c \in CantidadesEntrada :
                    EnMemoria(actualizar_cantidad(Estado, id, c, en[1], en[2]))
                        = Semana09_actualizar_cantidad(Memoria(Estado), id, c)
              /\ \A x \in PreciosEntrada :
                    EnMemoria(actualizar_precio(Estado, id, x, en[1], en[2]))
                        = Semana09_actualizar_precio(Memoria(Estado), id, x)
        /\ \A texto \in TextosDeBusqueda :
              EnMemoria(buscar_por_nombre(Estado, texto))
                  = Semana09_buscar_por_nombre(Memoria(Estado), texto)

\* C24: the persistent store started on a missing or empty file refines the
\* store of Semana 09: it starts with the same (empty) memory and, from the
\* same memory, each add / remove / update / search returns the same status
\* and leaves the same products in the same order, whatever the outcome of
\* the file write; so the two agree after every sequence of calls.
C24_RefinaSemana09 ==
    /\ MismoComienzo
    /\ fase = "listo" => MismoPaso

\* C24 witness: a price was set while the write failed after the file was
\* opened, in a store of two products.
C24_Testigo ==
    /\ ultima.op = "precio" /\ ultima.ret = "True" /\ ultima.escritura = "OSError"
    /\ Len(productos) = 2

\* ------------------------------------------- pet adoption (Semana 04): model

\* Applications created in one run of the program.
MaxSolicitudes == 3

\* Pet.status and AdoptionApplication.status
EstadosDeMascota == {"available", "pending", "adopted", "unavailable"}
EstadosDeSolicitud ==
    {"submitted", "under_review", "approved", "rejected", "completed", "cancelled"}

\* What a call raises: "ninguna" when it returns.
Vuelve(sh) == [sh |-> sh, exc |-> "ninguna"]
Lanza(sh, exc) == [sh |-> sh, exc |-> exc]

\* Pet.is_adoptable
is_adoptable(pet) == pet.status = "available"

\* Pet.mark_pending: [exc, pet]
mark_pending(pet) ==
    IF ~is_adoptable(pet) THEN [exc |-> "ValueError", pet |-> pet]
    ELSE [exc |-> "ninguna", pet |-> [pet EXCEPT !.status = "pending"]]

\* Pet.mark_adopted, Pet.mark_available
mark_adopted(pet) == [pet EXCEPT !.status = "adopted"]
mark_available(pet) == [pet EXCEPT !.status = "available"]

\* Adopter.can_apply(shelter)
can_apply(adopter, sh) ==
    LET active == { a \in DOMAIN sh.applications :
                        /\ sh.applications[a].adopter_id = adopter.adopter_id
                        /\ sh.applications[a].status \in {"submitted", "under_review"} }
    IN  Cardinality(active) < adopter.max_active_applications

\* AdoptionApplication.mark_under_review, approve, reject, complete, cancel:
\* [exc, app]. The reviewer, the dates and the message do not bear on the
\* status and are left out.
mark_under_review(app) ==
    IF app.status # "submitted" THEN [exc |-> "ValueError", app |-> app]
    ELSE [exc |-> "ninguna", app |-> [app EXCEPT !.status = "under_review"]]

approve(app) ==
    IF app.status \notin {"submitted", "under_review"}
    THEN [exc |-> "ValueError", app |-> app]
    ELSE [exc |-> "ninguna", app |-> [app EXCEPT !.status = "approved"]]

reject(app) ==
    IF app.status \notin {"submitted", "under_review"}
    THEN [exc |-> "ValueError", app |-> app]
    ELSE [exc |-> "ninguna", app |-> [app EXCEPT !.status = "rejected"]]

complete(app) ==
    IF app.status # "approved" THEN [exc |-> "ValueError", app |-> app]
    ELSE [exc |-> "ninguna", app |-> [app EXCEPT !.status = "completed"]]

cancel(app) ==
    IF app.status \in {"completed", "cancelled"}
    THEN [exc |-> "ValueError", app |-> app]
    ELSE [exc |-> "ninguna", app |-> [app EXCEPT !.status = "cancelled"]]

\* _new_id(): an id no application has; applications are never deleted, so
\* the next number is free.
new_id(sh) == Cardinality(DOMAIN sh.applications) + 1

\* Mutant of create_application: a pet that is pending is accepted as well.
create_application_admite_pendiente(sh, adopter_id, pet_id) ==
    IF adopter_id \notin DOMAIN sh.adopters THEN Lanza(sh, "KeyError")
    ELSE IF pet_id \notin DOMAIN sh.pets THEN Lanza(sh, "KeyError")
    ELSE IF sh.pets[pet_id].status \notin {"available", "pending"}
    THEN Lanza(sh, "ValueError")
    ELSE IF ~can_apply(sh.adopters[adopter_id], sh) THEN Lanza(sh, "ValueError")
    ELSE Vuelve([sh EXCEPT
                   !.applications =
                       (new_id(sh) :> [pet_id |-> pet_id, adopter_id |-> adopter_id,
                                       status |-> "submitted"]) @@ sh.applications,
                   !.pets[pet_id].status = "pending"])

\* Shelter.create_application(adopter_id, pet_id)
create_application(sh, adopter_id, pet_id) ==
    IF adopter_id \notin DOMAIN sh.adopters THEN Lanza(sh, "KeyError")
    ELSE IF pet_id \notin DOMAIN sh.pets THEN Lanza(sh, "KeyError")
    ELSE IF ~is_adoptable(sh.pets[pet_id]) THEN Lanza(sh, "ValueError")
    ELSE IF ~can_apply(sh.adopters[adopter_id], sh) THEN Lanza(sh, "ValueError")
    ELSE LET con_solicitud ==
                 [sh EXCEPT !.applications =
                     (new_id(sh) :> [pet_id |-> pet_id, adopter_id |-> adopter_id,
                                     status |-> "submitted"]) @@ sh.applications]
             reservada == mark_pending(sh.pets[pet_id])
         IN  IF reservada.exc # "ninguna" THEN Lanza(con_solicitud, reservada.exc)
             ELSE Vuelve([con_solicitud EXCEPT !.pets[pet_id] = reservada.pet])

\* Mutant of review_application: an application that is completed can be
\* put under review again.
review_application_reabre(sh, application_id, action) ==
    IF application_id \notin DOMAIN sh.applications THEN Lanza(sh, "KeyError")
    ELSE LET app == sh.applications[application_id]
         IN  IF action = "under_review"
             THEN IF app.status \notin {"submitted", "completed"}
                  THEN Lanza(sh, "ValueError")
                  ELSE Vuelve([sh EXCEPT
                          !.applications[application_id].status = "under_review"])
             ELSE IF action = "approve"
             THEN IF approve(app).exc # "ninguna" THEN Lanza(sh, approve(app).exc)
                  ELSE Vuelve([sh EXCEPT !.applications[application_id] = approve(app).app])
             ELSE IF action = "reject"
             THEN IF reject(app).exc # "ninguna" THEN Lanza(sh, reject(app).exc)
                  ELSE Vuelve([sh EXCEPT
                          !.applications[application_id] = reject(app).app,
                          !.pets[app.pet_id] = mark_available(sh.pets[app.pet_id])])
             ELSE Lanza(sh, "ValueError")

\* Shelter.review_application(application_id, action)
review_application(sh, application_id, action) ==
    IF application_id \notin DOMAIN sh.applications THEN Lanza(sh, "KeyError")
    ELSE LET app == sh.applications[application_id]
         IN  IF app.pet_id \notin DOMAIN sh.pets THEN Lanza(sh, "KeyError")
             ELSE IF action = "under_review"
             THEN IF mark_under_review(app).exc # "ninguna"
                  THEN Lanza(sh, mark_under_review(app).exc)
                  ELSE Vuelve([sh EXCEPT
                          !.applications[application_id] = mark_under_review(app).app])
             ELSE IF action = "approve"
             THEN IF approve(app).exc # "ninguna" THEN Lanza(sh, approve(app).exc)
                  ELSE Vuelve([sh EXCEPT !.applications[application_id] = approve(app).app])
             ELSE IF action = "reject"
             THEN IF reject(app).exc # "ninguna" THEN Lanza(sh, reject(app).exc)
                  ELSE Vuelve([sh EXCEPT
                          !.applications[application_id] = reject(app).app,
                          !.pets[app.pet_id] = mark_available(sh.pets[app.pet_id])])
             ELSE Lanza(sh, "ValueError")

\* Shelter.finalize_adoption(application_id)
finalize_adoption(sh, application_id) ==
    IF application_id \notin DOMAIN sh.applications THEN Lanza(sh, "KeyError")
    ELSE LET app == sh.applications[application_id]
         IN  IF app.status # "approved" THEN Lanza(sh, "ValueError")
             ELSE IF app.pet_id \notin DOMAIN sh.pets THEN Lanza(sh, "KeyError")
             ELSE IF app.adopter_id \notin DOMAIN sh.adopters THEN Lanza(sh, "KeyError")
             ELSE LET adoptada ==
                          [sh EXCEPT
                             !.pets[app.pet_id] = mark_adopted(sh.pets[app.pet_id]),
                             !.adopters[app.adopter_id].adopted_pets =
                                 Append(sh.adopters[app.adopter_id].adopted_pets,
                                        app.pet_id)]
                  IN  IF complete(app).exc # "ninguna"
                      THEN Lanza(adoptada, complete(app).exc)
                      ELSE Vuelve([adoptada EXCEPT
                                     !.applications[application_id] = complete(app).app])

\* Shelter.cancel_application(application_id)
cancel_application(sh, application_id) ==
    IF application_id \notin DOMAIN sh.applications THEN Lanza(sh, "KeyError")
    ELSE LET app == sh.applications[application_id]
         IN  IF app.status \in {"completed", "cancelled"} THEN Lanza(sh, "ValueError")
             ELSE IF app.pet_id \notin DOMAIN sh.pets THEN Lanza(sh, "KeyError")
             ELSE IF cancel(app).exc # "ninguna" THEN Lanza(sh, cancel(app).exc)
             ELSE LET cancelada == [sh EXCEPT !.applications[application_id] =
                                                  cancel(app).app]
                  IN  IF sh.pets[app.pet_id].status = "pending"
                      THEN Vuelve([cancelada EXCEPT !.pets[app.pet_id] =
                                       mark_available(sh.pets[app.pet_id])])
                      ELSE Vuelve(cancelada)

\* The pets and adopters of the shelter, and ids that name nobody.
Mascotas == {"luna", "copito"}
Adoptantes == {"maria", "juan"}
IdsDeMascota == Mascotas \cup {"nadie"}
IdsDeAdoptante == Adoptantes \cup {"nadie"}
IdsDeSolicitud == 1..(MaxSolicitudes + 1)
AccionesDeRevision == {"under_review", "approve", "reject", "otra"}

\* The shelter after add_pet and register_adopter: Luna is available, Copito
\* available or not up for adoption; María may have one active application,
\* Juan three.
RefugiosIniciales ==
    { [pets |-> [p \in Mascotas |->
                    [pet_id |-> p,
                     status |-> IF p = "luna" THEN "available" ELSE s]],
       adopters |-> [a \in Adoptantes |->
                    [adopter_id |-> a, adopted_pets |-> <<>>,
                     max_active_applications |-> IF a = "maria" THEN 1 ELSE 3]],
       applications |-> [a \in {} |-> 0]] :
        s \in {"available", "unavailable"} }

\* The variables of the other programs.
FueraDelRefugio ==
    <<objetos, productos, indice_por_id, archivo, fase, ultima, fallos,
      biblioteca, duelo>>

InitRefugio ==
    /\ refugio \in RefugiosIniciales
    /\ objetos = Ninguno /\ productos = Ninguno /\ indice_por_id = Ninguno
    /\ archivo = Ninguno /\ fase = Ninguno /\ ultima = Ninguno /\ fallos = Ninguno
    /\ biblioteca = Ninguno /\ duelo = Ninguno

\* shelter.create_application(adopter_id, pet_id), while ids are left; a
\* call that raises leaves the shelter as the exception found it.
CreateApplication ==
    /\ \E adopter_id \in IdsDeAdoptante, pet_id \in IdsDeMascota :
          LET r == create_application(refugio, adopter_id, pet_id)
          IN  /\ Cardinality(DOMAIN r.sh.applications) <= MaxSolicitudes
              /\ refugio' = r.sh
    /\ UNCHANGED FueraDelRefugio

\* shelter.review_application(application_id, action)
ReviewApplication ==
    /\ \E application_id \in IdsDeSolicitud, action \in AccionesDeRevision :
          refugio' = review_application(refugio, application_id, action).sh
    /\ UNCHANGED FueraDelRefugio

\* shelter.finalize_adoption(application_id)
FinalizeAdoption ==
    /\ \E application_id \in IdsDeSolicitud :
          refugio' = finalize_adoption(refugio, application_id).sh
    /\ UNCHANGED FueraDelRefugio

\* shelter.cancel_application(application_id)
CancelApplication ==
    /\ \E application_id \in IdsDeSolicitud :
          refugio' = cancel_application(refugio, application_id).sh
    /\ UNCHANGED FueraDelRefugio

NextRefugio ==
    \/ CreateApplication
    \/ ReviewApplication
    \/ FinalizeAdoption
    \/ CancelApplication

SpecRefugio == InitRefugio /\ [][NextRefugio]_vars

\* ------------------------------------------ pet adoption (Semana 04): claims

\* The applications of a pet that are in one of the given statuses.
SolicitudesDe(pet_id, estados) ==
    { a \in DOMAIN refugio.applications :
          /\ refugio.applications[a].pet_id = pet_id
          /\ refugio.applications[a].status \in estados }

\* C25 (as claimed): each pet has at most one application that is submitted,
\* under review or approved, and is finalized as adopted at most once.
\* Violated: cancel_application of a rejected application makes the pet
\* available while another application holds it pending, and a third
\* application then reserves it as well.
C25_UnaReservaPorMascota ==
    \A p \in Mascotas :
        /\ Cardinality(SolicitudesDe(p, {"submitted", "under_review", "approved"})) <= 1
        /\ Cardinality(SolicitudesDe(p, {"completed"})) <= 1

\* C26: create_application for a pet whose status is not available (pending,
\* adopted or unavailable) raises an error, whoever applies, and leaves the
\* applications, the pets and the adopters as they were.
C26_NoDisponibleRechazada ==
    \A pet_id \in Mascotas, adopter_id \in IdsDeAdoptante :
        refugio.pets[pet_id].status # "available"
        => /\ create_application(refugio, adopter_id, pet_id).exc
                  \in {"ValueError", "KeyError"}
           /\ create_application(refugio, adopter_id, pet_id).sh = refugio

\* C26 witness: Luna is adopted and Copito is not up for adoption, Juan has
\* no active application, and his application for Luna raises ValueError.
C26_Testigo ==
    /\ refugio.pets["luna"].status = "adopted"
    /\ refugio.pets["copito"].status = "unavailable"
    /\ can_apply(refugio.adopters["juan"], refugio)
    /\ create_application(refugio, "juan", "luna").exc = "ValueError"

\* The edges of AdoptionApplication.status.
Aristas ==
    { <<"submitted", "under_review">> }
    \cup ({"submitted", "under_review"} \X {"approved", "rejected"})
    \cup { <<"approved", "completed">> }
    \cup ((EstadosDeSolicitud \ {"completed", "cancelled"}) \X {"cancelled"})

\* Every call of the shelter, with what it is called with.
LlamadasAlRefugio ==
    { create_application(refugio, a, p) : a \in IdsDeAdoptante, p \in IdsDeMascota }
    \cup { review_application(refugio, s, x) :
              s \in IdsDeSolicitud, x \in AccionesDeRevision }
    \cup { finalize_adoption(refugio, s) : s \in IdsDeSolicitud }
    \cup { cancel_application(refugio, s) : s \in IdsDeSolicitud }

\* The status review_application, finalize_adoption and cancel_application
\* ask for, and "ninguno" for an unknown action.
Pedido(action) ==
    CASE action = "under_review" -> "under_review"
      [] action = "approve" -> "approved"
      [] action = "reject" -> "rejected"
      [] action = "finalize" -> "completed"
      [] action = "cancel" -> "cancelled"
      [] OTHER -> "ninguno"

\* The call that asks application s for the status of action.
Transicion(s, action) ==
    IF action = "finalize" THEN finalize_adoption(refugio, s)
    ELSE IF action = "cancel" THEN cancel_application(refugio, s)
    ELSE review_application(refugio, s, action)

\* A call moves the status of an application along an edge or not at all;
\* a transition asked for succeeds on an edge, and outside the edges it
\* raises and leaves every status as it was.
SoloPorAristas ==
    /\ \A r \in LlamadasAlRefugio, s \in DOMAIN refugio.applications :
          \/ r.sh.applications[s].status = refugio.applications[s].status
          \/ <<refugio.applications[s].status, r.sh.applications[s].status>> \in Aristas
    /\ \A s \in DOMAIN refugio.applications,
          action \in AccionesDeRevision \cup {"finalize", "cancel"} :
          IF <<refugio.applications[s].status, Pedido(action)>> \in Aristas
          THEN /\ Transicion(s, action).exc = "ninguna"
               /\ Transicion(s, action).sh.applications[s].status = Pedido(action)
          ELSE /\ Transicion(s, action).exc = "ValueError"
               /\ Transicion(s, action).sh.applications = refugio.applications

\* C27: the status of an application moves only along submitted ->
\* under_review, submitted or under_review -> approved or rejected, approved
\* -> completed, and any status but completed and cancelled -> cancelled;
\* completed and cancelled are terminal; a transition outside these edges
\* raises and changes no status.
C27_TransicionesDeSolicitud ==
    /\ []SoloPorAristas
    /\ [][\A s \in DOMAIN refugio.applications :
             \/ refugio'.applications[s].status = refugio.applications[s].status
             \/ <<refugio.applications[s].status, refugio'.applications[s].status>>
                   \in Aristas]_vars
    /\ [][\A s \in DOMAIN refugio'.applications \ DOMAIN refugio.applications :
             refugio'.applications[s].status = "submitted"]_vars

\* C27 witness: the three applications are one completed, one cancelled and
\* one rejected.
C27_Testigo ==
    /\ DOMAIN refugio.applications = 1..3
    /\ { refugio.applications[s].status : s \in 1..3 }
           = {"completed", "cancelled", "rejected"}

\* C28 (as claimed): a pet that is adopted stays adopted under every later
\* call. Violated: review_application(..., "reject") marks the pet available
\* whatever its status, so rejecting a second application of a pet that was
\* adopted through the first (the double reservation of C25) puts the pet
\* up for adoption again.
C28_AdopcionPermanente ==
    [][\A p \in Mascotas :
          refugio.pets[p].status = "adopted" => refugio'.pets[p].status = "adopted"]_vars

\* ------------------------------------------------ library (Semana 04): model

\* Copies of one title in the catalog, and loans made in one run.
MaxCopias == 2
MaxPrestamos == 2

\* What a call on the library raises: "ninguna" when it returns.
Devuelve(lib) == [lib |-> lib, exc |-> "ninguna"]
Falla(lib, exc) == [lib |-> lib, exc |-> exc]

\* Book(isbn, ..., total_copies, available_copies) with __post_init__
Book_init(isbn, total_copies, available_copies) ==
    [isbn |-> isbn, total_copies |-> total_copies,
     available_copies |-> IF available_copies > total_copies THEN total_copies
                          ELSE available_copies]

\* Book.add_copies(count): [exc, book]
add_copies(book, count) ==
    IF count < 1 THEN [exc |-> "ValueError", book |-> book]
    ELSE [exc |-> "ninguna",
          book |-> [book EXCEPT !.total_copies = @ + count,
                                !.available_copies = @ + count]]

\* Mutant of remove_copies: copies on loan can be removed (no check against
\* available_copies).
remove_copies_prestadas(book, count) ==
    IF count < 1 THEN [exc |-> "ValueError", book |-> book]
    ELSE IF count > book.total_copies THEN [exc |-> "ValueError", book |-> book]
    ELSE [exc |-> "ninguna",
          book |-> [book EXCEPT !.total_copies = @ - count,
                                !.available_copies = @ - count]]

\* Book.remove_copies(count): [exc, book]
remove_copies(book, count) ==
    IF count < 1 THEN [exc |-> "ValueError", book |-> book]
    ELSE IF count > book.available_copies THEN [exc |-> "ValueError", book |-> book]
    ELSE IF count > book.total_copies THEN [exc |-> "ValueError", book |-> book]
    ELSE [exc |-> "ninguna",
          book |-> [book EXCEPT !.total_copies = @ - count,
                                !.available_copies = @ - count]]

\* Book.is_available
is_available(book) == book.available_copies > 0

\* Library.add_book(book)
add_book(lib, book) ==
    IF book.isbn \in DOMAIN lib.catalog
    THEN LET existing == add_copies(lib.catalog[book.isbn], book.total_copies)
         IN  IF existing.exc # "ninguna" THEN Falla(lib, existing.exc)
             ELSE Devuelve([lib EXCEPT !.catalog[book.isbn] = existing.book])
    ELSE Devuelve([lib EXCEPT !.catalog = (book.isbn :> book) @@ lib.catalog])

\* Library.remove_book(isbn, count)
remove_book(lib, isbn, count) ==
    IF isbn \notin DOMAIN lib.catalog THEN Falla(lib, "KeyError")
    ELSE LET book == remove_copies(lib.catalog[isbn], count)
         IN  IF book.exc # "ninguna" THEN Falla(lib, book.exc)
             ELSE IF book.book.total_copies = 0
             THEN Devuelve([lib EXCEPT !.catalog =
                              [i \in DOMAIN lib.catalog \ {isbn} |-> lib.catalog[i]]])
             ELSE Devuelve([lib EXCEPT !.catalog[isbn] = book.book])

\* The loans of a member that are not returned.
active_loans(lib, member_id) ==
    { l \in DOMAIN lib.loans :
          lib.loans[l].member_id = member_id /\ ~lib.loans[l].returned }

\* Loan.loan_id: str(uuid.uuid4())[:8], taken to be an id no loan has; loans
\* are never deleted, so the next number is free.
loan_id(lib) == Cardinality(DOMAIN lib.loans) + 1

\* Library.borrow_book(member_id, isbn); the dates of the loan are left out,
\* returned stands for returned_date being set.
borrow_book(lib, member_id, isbn) ==
    IF member_id \notin DOMAIN lib.members THEN Falla(lib, "KeyError")
    ELSE IF isbn \notin DOMAIN lib.catalog THEN Falla(lib, "KeyError")
    ELSE IF Cardinality(active_loans(lib, member_id)) >= lib.members[member_id].max_loans
    THEN Falla(lib, "ValueError")
    ELSE IF ~is_available(lib.catalog[isbn]) THEN Falla(lib, "ValueError")
    ELSE Devuelve([lib EXCEPT
                     !.loans = (loan_id(lib) :> [book_isbn |-> isbn,
                                                 member_id |-> member_id,
                                                 returned |-> FALSE]) @@ lib.loans,
                     !.catalog[isbn].available_copies = @ - 1])

\* Library.return_book(loan_id)
return_book(lib, id) ==
    IF id \notin DOMAIN lib.loans THEN Falla(lib, "KeyError")
    ELSE IF lib.loans[id].returned THEN Falla(lib, "ValueError")
    ELSE LET isbn == lib.loans[id].book_isbn
             devuelto == [lib EXCEPT !.loans[id].returned = TRUE]
         IN  IF isbn \in DOMAIN lib.catalog
             THEN Devuelve([devuelto EXCEPT !.catalog[isbn].available_copies = @ + 1])
             ELSE Devuelve([devuelto EXCEPT !.catalog =
                              (isbn :> Book_init(isbn, 1, 1)) @@ lib.catalog])

\* The titles and members of the library, and ids that name nothing.
Isbns == {"odisea", "soledad"}
IsbnsDeEntrada == Isbns \cup {"otro"}
Socios == {"alice", "bob"}
SociosDeEntrada == Socios \cup {"nadie"}

\* Library(...) after register_member: Alice may hold three loans, Bob one.
BibliotecaInicial ==
    [catalog |-> [i \in {} |-> 0],
     members |-> [m \in Socios |->
                    [member_id |-> m, max_loans |-> IF m = "alice" THEN 3 ELSE 1]],
     loans |-> [l \in {} |-> 0]]

\* The variables of the other programs.
FueraDeLaBiblioteca ==
    <<objetos, productos, indice_por_id, archivo, fase, ultima, fallos,
      refugio, duelo>>

InitBiblioteca ==
    /\ biblioteca = BibliotecaInicial
    /\ objetos = Ninguno /\ productos = Ninguno /\ indice_por_id = Ninguno
    /\ archivo = Ninguno /\ fase = Ninguno /\ ultima = Ninguno /\ fallos = Ninguno
    /\ refugio = Ninguno /\ duelo = Ninguno

\* biblioteca.add_book(Book(...)), while no title has more than MaxCopias
\* copies; a call that raises leaves the library as the exception found it.
AddBook ==
    /\ \E isbn \in Isbns, total_copies \in 0..MaxCopias,
          available_copies \in 0..MaxCopias :
          LET r == add_book(biblioteca, Book_init(isbn, total_copies, available_copies))
          IN  /\ \A i \in DOMAIN r.lib.catalog :
                    r.lib.catalog[i].total_copies <= MaxCopias
              /\ biblioteca' = r.lib
    /\ UNCHANGED FueraDeLaBiblioteca

\* biblioteca.remove_book(isbn, count)
RemoveBook ==
    /\ \E isbn \in IsbnsDeEntrada, count \in 0..MaxCopias :
          biblioteca' = remove_book(biblioteca, isbn, count).lib
    /\ UNCHANGED FueraDeLaBiblioteca

\* biblioteca.borrow_book(member_id, isbn), while loan ids are left
BorrowBook ==
    /\ \E member_id \in SociosDeEntrada, isbn \in IsbnsDeEntrada :
          LET r == borrow_book(biblioteca, member_id, isbn)
          IN  /\ Cardinality(DOMAIN r.lib.loans) <= MaxPrestamos
              /\ biblioteca' = r.lib
    /\ UNCHANGED FueraDeLaBiblioteca

\* biblioteca.return_book(loan_id)
ReturnBook ==
    /\ \E id \in 1..(MaxPrestamos + 1) :
          biblioteca' = return_book(biblioteca, id).lib
    /\ UNCHANGED FueraDeLaBiblioteca

NextBiblioteca ==
    \/ AddBook
    \/ RemoveBook
    \/ BorrowBook
    \/ ReturnBook

SpecBiblioteca == InitBiblioteca /\ [][NextBiblioteca]_vars

\* ----------------------------------------------- library (Semana 04): claims

\* The loans of a title that are not returned.
PrestamosSinDevolver(isbn) ==
    { l \in DOMAIN biblioteca.loans :
          biblioteca.loans[l].book_isbn = isbn /\ ~biblioteca.loans[l].returned }

\* The copies of every title in the catalog add up.
CopiasEnRegla ==
    \A isbn \in DOMAIN biblioteca.catalog :
        LET book == biblioteca.catalog[isbn]
        IN  /\ 0 <= book.available_copies
            /\ book.available_copies <= book.total_copies
            /\ book.available_copies + Cardinality(PrestamosSinDevolver(isbn))
                   <= book.total_copies

\* A title with a loan that is not returned is in the catalog, and no
\* remove_book takes it out.
PrestadoSigueEnCatalogo ==
    \A l \in DOMAIN biblioteca.loans :
        ~biblioteca.loans[l].returned
        => /\ biblioteca.loans[l].book_isbn \in DOMAIN biblioteca.catalog
           /\ \A count \in 0..(MaxCopias + 1) :
                 biblioteca.loans[l].book_isbn \in
                     DOMAIN remove_book(biblioteca, biblioteca.loans[l].book_isbn,
                                        count).lib.catalog

\* return_book of a loan that is returned raises and changes nothing.
DevueltoUnaVez ==
    \A l \in DOMAIN biblioteca.loans :
        biblioteca.loans[l].returned
        => return_book(biblioteca, l) = Falla(biblioteca, "ValueError")

\* C29: for every title in the catalog 0 <= available_copies <=
\* total_copies and available_copies plus the loans of the title that are
\* not returned is at most total_copies; a title with such a loan is never
\* taken out of the catalog; and a loan is returned at most once.
C29_CopiasYPrestamos ==
    /\ [](CopiasEnRegla /\ PrestadoSigueEnCatalogo /\ DevueltoUnaVez)
    /\ [][\A l \in DOMAIN biblioteca.loans :
             /\ l \in DOMAIN biblioteca'.loans
             /\ biblioteca.loans[l].returned => biblioteca'.loans[l].returned]_vars

\* C29 witness: of two loans of a title with two copies one is returned and
\* one is not, and one copy is available.
C29_Testigo ==
    \E isbn \in DOMAIN biblioteca.catalog :
        /\ biblioteca.catalog[isbn].total_copies = 2
        /\ biblioteca.catalog[isbn].available_copies = 1
        /\ Cardinality(PrestamosSinDevolver(isbn)) = 1
        /\ \E l \in DOMAIN biblioteca.loans :
              biblioteca.loans[l].book_isbn = isbn /\ biblioteca.loans[l].returned

\* ----------------------------------------------------- combat (Semana 02): model

\* The largest vida a character is constructed with.
MaxVida == 3

\* vida, defensa and damage are counted in halves of a point: with the
\* weapons of Armas every damage is a whole number of halves, so the float
\* arithmetic of the program is exact on them.
Unidad == 2

\* Personaje.__init__: vida is stored as given, the setter is not used.
Personaje_init(clase, poder, defensa, vida, arma) ==
    [clase |-> clase, fuerza |-> IF clase = "Guerrero" THEN poder ELSE 0,
     inteligencia |-> IF clase = "Mago" THEN poder ELSE 0,
     defensa |-> defensa * Unidad, vida |-> vida * Unidad, arma |-> arma]

\* Personaje.vida (setter)
vida_setter(valor) == IF valor > 0 THEN valor ELSE 0

\* Personaje.esta_vivo
esta_vivo(p) == p.vida > 0

\* Guerrero.daño and Mago.daño: arma is the espada of a Guerrero and the
\* libro of a Mago.
danio(p) ==
    IF p.clase = "Guerrero" THEN (p.fuerza * (10 + p.arma) * Unidad) \div 10
    ELSE (p.inteligencia * (10 + p.arma) * Unidad) \div 10

\* Personaje.ataque_final(enemigo, daño_base): the characters after the
\* attack; critico and evasion are the two draws of random.random().
ataque_final(personajes, enemigo, danio_base, critico, evasion) ==
    IF evasion THEN personajes
    ELSE LET base == IF critico THEN (danio_base * 3) \div 2 ELSE danio_base
             resta == base - personajes[enemigo].defensa
             danio_final == IF resta > 0 THEN resta ELSE 0
         IN  [personajes EXCEPT
                 ![enemigo].vida = vida_setter(personajes[enemigo].vida - danio_final)]

\* Personaje.atacar(enemigo)
atacar(personajes, yo, enemigo, critico, evasion) ==
    ataque_final(personajes, enemigo, danio(personajes[yo]), critico, evasion)

\* combate, line 105: the test of the loop.
combate_mientras(d) ==
    IF esta_vivo(d.personajes[d.j1]) /\ esta_vivo(d.personajes[d.j2])
    THEN [d EXCEPT !.pc = "turno_j1"]
    ELSE [d EXCEPT !.pc = "fin"]

\* combate, line 107: j1.atacar(j2)
combate_turno_j1(d, critico, evasion) ==
    [d EXCEPT !.personajes = atacar(d.personajes, d.j1, d.j2, critico, evasion),
              !.pc = "turno_j2"]

\* Mutant of the turn of j2: j2 strikes back without being asked whether it
\* is alive.
combate_turno_j2_aun_muerto(d, critico, evasion) ==
    [d EXCEPT !.personajes = atacar(d.personajes, d.j2, d.j1, critico, evasion),
              !.pc = "mientras"]

\* combate, lines 108-110: j2 strikes back if it is alive.
combate_turno_j2(d, critico, evasion) ==
    IF esta_vivo(d.personajes[d.j2])
    THEN [d EXCEPT !.personajes = atacar(d.personajes, d.j2, d.j1, critico, evasion),
                   !.pc = "mientras"]
    ELSE [d EXCEPT !.pc = "mientras"]

\* combate, lines 112-118: the outcome that is announced.
combate_fin(d) ==
    [d EXCEPT !.pc = "hecho",
              !.resultado = IF esta_vivo(d.personajes[d.j1]) THEN "j1"
                            ELSE IF esta_vivo(d.personajes[d.j2]) THEN "j2"
                            ELSE "empate"]

\* The characters of the example and what they are constructed with.
Nombres == {"aldric", "lyssandra"}
Poderes == {1, 2}
Defensas == {0, 1}
Armas == {0, 10}
Vidas == (-1)..MaxVida

\* The variables of the other programs.
FueraDelDuelo ==
    <<objetos, productos, indice_por_id, archivo, fase, ultima, fallos,
      refugio, biblioteca>>

\* combate(j1, j2) is called with a Guerrero and a Mago, in either order, or
\* with the same character twice; vivos_al_entrar keeps who was alive at the
\* call.
InitCombate ==
    /\ \E fuerza \in Poderes, inteligencia \in Poderes, espada \in Armas, libro \in Armas,
          defensa_a \in Defensas, defensa_l \in Defensas,
          vida_a \in Vidas, vida_l \in Vidas, j1 \in Nombres, j2 \in Nombres :
          LET personajes ==
                  [n \in Nombres |->
                     IF n = "aldric"
                     THEN Personaje_init("Guerrero", fuerza, defensa_a, vida_a, espada)
                     ELSE Personaje_init("Mago", inteligencia, defensa_l, vida_l, libro)]
          IN  duelo = [personajes |-> personajes, j1 |-> j1, j2 |-> j2,
                       pc |-> "mientras", resultado |-> Ninguno,
                       vivos_al_entrar |->
                           { n \in {j1, j2} : esta_vivo(personajes[n]) }]
    /\ objetos = Ninguno /\ productos = Ninguno /\ indice_por_id = Ninguno
    /\ archivo = Ninguno /\ fase = Ninguno /\ ultima = Ninguno /\ fallos = Ninguno
    /\ refugio = Ninguno /\ biblioteca = Ninguno

\* while j1.esta_vivo() and j2.esta_vivo()
Mientras ==
    /\ duelo.pc = "mientras"
    /\ duelo' = combate_mientras(duelo)
    /\ UNCHANGED FueraDelDuelo

\* j1.atacar(j2)
TurnoJ1 ==
    /\ duelo.pc = "turno_j1"
    /\ \E critico \in BOOLEAN, evasion \in BOOLEAN :
          duelo' = combate_turno_j1(duelo, critico, evasion)
    /\ UNCHANGED FueraDelDuelo

\* if j2.esta_vivo(): j2.atacar(j1)
TurnoJ2 ==
    /\ duelo.pc = "turno_j2"
    /\ \E critico \in BOOLEAN, evasion \in BOOLEAN :
          duelo' = combate_turno_j2(duelo, critico, evasion)
    /\ UNCHANGED FueraDelDuelo

\* the end of combate
FinDelCombate ==
    /\ duelo.pc = "fin"
    /\ duelo' = combate_fin(duelo)
    /\ UNCHANGED FueraDelDuelo

NextCombate ==
    \/ Mientras
    \/ TurnoJ1
    \/ TurnoJ2
    \/ FinDelCombate

SpecCombate == InitCombate /\ [][NextCombate]_vars

\* ---------------------------------------------------- combat (Semana 02): claims

\* The characters of the combat that are alive.
Vivos == { n \in {duelo.j1, duelo.j2} : esta_vivo(duelo.personajes[n]) }

\* The loop of combate has ended.
BucleTerminado == duelo.pc \in {"fin", "hecho"}

\* No vida of the combat is negative, one character is alive when the loop
\* has ended, and no draw is announced.
UnGanador ==
    /\ \A n \in {duelo.j1, duelo.j2} : duelo.personajes[n].vida >= 0
    /\ BucleTerminado => Cardinality(Vivos) = 1
    /\ duelo.resultado # "empate"

\* combate was called with two characters, both alive.
DosVivosAlEntrar ==
    /\ duelo.j1 # duelo.j2
    /\ duelo.vivos_al_entrar = {duelo.j1, duelo.j2}

\* C30 as stated: in combate(j1, j2) no vida is negative and whenever the
\* loop ends exactly one of the two characters is alive, so that the draw is
\* never reached.
C30_SinEmpate == UnGanador

\* C30 amended: when combate is called with two different characters that
\* are both alive, no vida is negative, exactly one of the two is alive
\* whenever the loop ends and the draw is not reached; a draw is announced
\* only when no character was alive at the call or j1 and j2 are the same
\* character.
C30_SinEmpateEntreDosVivos ==
    /\ DosVivosAlEntrar => UnGanador
    /\ duelo.resultado = "empate"
       => duelo.vivos_al_entrar = {} \/ duelo.j1 = duelo.j2

\* C30 witness: two living characters fought, j1 fell to the answer of j2
\* and j2 is announced.
C30_Testigo ==
    /\ DosVivosAlEntrar
    /\ duelo.pc = "hecho"
    /\ duelo.resultado = "j2"
    /\ duelo.personajes[duelo.j1].vida = 0
    /\ duelo.personajes[duelo.j2].vida < MaxVida * Unidad

====
